---- MODULE Spec2Model ----
(***************************************************************************)
(* Model of the acquisition and multiplexing server of daq_server.py:      *)
(* the DAQ worker (DAQ_process), the supervisor loop (main), the command   *)
(* handlers (cmd_handler) and the data handlers (data_handler), with the   *)
(* queues, the response-slot pool and the sample ring they share.          *)
(*                                                                         *)
(* Texts (requests, SCPI commands) are sequences of one-character strings, *)
(* so that strip/upper/split/replace are computed as the code computes     *)
(* them.  Times are integers (one unit = one second); NaN is a             *)
(* distinguished value that fails every comparison.                        *)
(***************************************************************************)
EXTENDS Integers, Sequences, FiniteSets, TLC

(* ------------------------------ bounds --------------------------------- *)
MaxTime == 5          \* the clock stops advancing here
MaxGap == 2           \* largest clock advance of one tick or one blocking read
NConn == 3            \* command-port connections that may be opened
RingSamples == 3      \* lines read by the worker, ring specification
RingRequests == 1     \* requests per connection, ring specification
DataSamples == 4      \* lines read by the worker, data specification
DataRequests1 == 1    \* requests on the data connection, data specification
MuxConns == 2         \* command clients, multiplexing specification
MuxSamples == 2       \* lines read by the worker, multiplexing specification
MuxRequests == 2      \* requests of all clients, multiplexing specification
SyncSamples == 2      \* lines read by the worker, synchronous-mode specification
SyncRequests == 2     \* requests per connection, synchronous-mode specification
DispSamples == 2      \* lines read by the worker, dispatch specification
DispRequests == 2     \* requests per connection, dispatch specification
SlotRequests == 1     \* requests of all clients, slot-pool specification
QuerySamples == 3     \* lines read by the worker, query specification
QueryRequests == 2    \* requests per connection, query specification
AbortSamples == 2     \* lines read by the worker, shutdown specification
AbortRequests == 1    \* requests per connection, shutdown specification
KeepSamples == 12     \* lines read by the worker, keepalive specification
KeepTime == 12        \* the clock stops here, keepalive specification
FifoCap == 2          \* records a subscriber FIFO would hold if it were bounded
MaxWash == 2          \* largest --wash count, maintenance specification
MaxLatency == 1       \* seconds the server may take to serve a request of the controller
MaxProcTime == 900    \* last second of the controller's clock, controller specification
LockSamples == 2      \* lines read by the worker, lock specification
LockRequests == 1     \* requests on the command connection, lock specification
KeepRequests == 1     \* requests per connection, keepalive specification
PoolRequests == 1     \* requests of all clients, slot-allocation specification
FatalSamples == 2     \* lines read by the worker, worker-failure specification
FatalRequests == 1    \* requests per connection, worker-failure specification
NSub == 2             \* streaming clients that may connect to the data port
StreamSubs == 2       \* streaming clients, streaming specification
StreamSamples == 3    \* lines read by the worker, streaming specification
StopSamples == 2      \* lines read by the worker, end-of-stream specification
TrigSamples == 2      \* lines read by the worker, trigger specification
TrigRequests == 2     \* requests per connection, trigger specification

(* ------------------------ program configuration ------------------------ *)
max_handlers == 2     \* arg.max_handlers (size of the response-slot pool)
bufsize == 2          \* arg.bufsize (ring window, seconds)
WdtPeriod == 10       \* keepalive watchdog period, seconds
MaxRespLen == 100     \* longest synchronous response taken as in phase
MaxCapLen == 6        \* longest :SYST:CAP? response taken as in phase
RstWait == 2          \* pre_wait of *RST / :SAV / :RCL requests, seconds

NaN == -999999

(* ------------------------------- texts --------------------------------- *)
T_SHUTDOWN == <<":","C","M","D",":","H","M","C",":","S","H","U","T","D","O","W","N">>
T_DROP == <<":","C","M","D",":","D","R","O","P">>
T_VERS == <<":","C","M","D",":","V","E","R","S","?">>
T_BUFSZ == <<":","C","M","D",":","B","U","F","S","Z","?">>
T_TIME_MIN == <<":","C","M","D",":","T","I","M","E",":","M","I","N","?">>
T_TIME_MAX == <<":","C","M","D",":","T","I","M","E",":","M","A","X","?">>
T_NAMES == <<":","C","M","D",":","N","A","M","E","S","?">>
T_TIME_RST == <<":","C","M","D",":","T","I","M","E",":","R","S","T">>
T_READ == <<":","C","M","D",":","R","E","A","D","?">>
T_ALL == <<"A","L","L">>
T_MAX == <<"M","A","X">>
T_MIN == <<"M","I","N">>
T_DRIFT == <<":","C","M","D",":","B","A","S","E",":","D","R","I","F","T","?">>
T_PEAK == <<":","C","M","D",":","P","E","A","K","?">>
T_TRIG_CONT == <<":","T","R","I","G",":","C","O","N","T",":","R","E","A","D","?">>
T_CONT == <<":","C","O","N","T">>
T_RST == <<"*","R","S","T">>
T_SAV == <<":","S","A","V">>
T_RCL == <<":","R","C","L">>
T_Q == <<"Q">>
T_CLS == <<"*","c","l","s">>
T_SYST_CAP == <<":","S","Y","S","T",":","C","A","P","?">>
T_KEEPALIVE == <<" ">>
T_TRIG_PREFIX == <<":","T","R","I","G",":","C","O","N","T",":","R","E","A","D","?"," ">>
T_DATA_LISTEN == <<":","D","A","T","A",":","L","I","S","T","E","N">>
T_DATA_NAMES == <<":","D","A","T","A",":","N","A","M","E","S","?">>
T_DATA_READ == <<":","D","A","T","A",":","R","E","A","D","?">>

LowerCase == <<"a","b","c","d","e","f","g","h","i","j","k","l","m",
               "n","o","p","q","r","s","t","u","v","w","x","y","z">>
UpperCase == <<"A","B","C","D","E","F","G","H","I","J","K","L","M",
               "N","O","P","Q","R","S","T","U","V","W","X","Y","Z">>

\* str.upper(), one character
UpperChar(c) ==
    IF \E i \in 1..26 : LowerCase[i] = c
    THEN UpperCase[CHOOSE i \in 1..26 : LowerCase[i] = c]
    ELSE c

\* str.upper()
Upper(s) == IF s = <<>> THEN <<>> ELSE [i \in 1..Len(s) |-> UpperChar(s[i])]

IsSpace(c) == c \in {" ", "\n", "\r", "\t"}

\* str.strip()
Strip(s) ==
    IF \A i \in 1..Len(s) : IsSpace(s[i]) THEN <<>>
    ELSE LET a == CHOOSE i \in 1..Len(s) :
                    /\ ~IsSpace(s[i])
                    /\ \A j \in 1..(i-1) : IsSpace(s[j])
             b == CHOOSE i \in 1..Len(s) :
                    /\ ~IsSpace(s[i])
                    /\ \A j \in (i+1)..Len(s) : IsSpace(s[j])
         IN SubSeq(s, a, b)

\* x in s (substring test)
Contains(s, x) ==
    \E i \in 0..(Len(s) - Len(x)) : SubSeq(s, i+1, i+Len(x)) = x

\* str.replace(x, y), leftmost non-overlapping occurrences; x is not empty
RECURSIVE Replace(_, _, _)
Replace(s, x, y) ==
    IF Len(s) < Len(x) THEN s
    ELSE IF SubSeq(s, 1, Len(x)) = x
         THEN y \o Replace(SubSeq(s, Len(x)+1, Len(s)), x, y)
         ELSE <<s[1]>> \o Replace(Tail(s), x, y)

\* str.split(): tokens separated by runs of whitespace
RECURSIVE SplitWs(_, _)
SplitWs(s, cur) ==
    IF s = <<>> THEN (IF cur = <<>> THEN <<>> ELSE <<cur>>)
    ELSE IF IsSpace(s[1])
         THEN (IF cur = <<>> THEN <<>> ELSE <<cur>>) \o SplitWs(Tail(s), <<>>)
         ELSE SplitWs(Tail(s), Append(cur, s[1]))

\* str.split(','): fields separated by single commas (never an empty list)
RECURSIVE SplitComma(_, _)
SplitComma(s, cur) ==
    IF s = <<>> THEN <<cur>>
    ELSE IF s[1] = ","
         THEN <<cur>> \o SplitComma(Tail(s), <<>>)
         ELSE SplitComma(Tail(s), Append(cur, s[1]))

\* fields = [x for x in cmdstr.upper().replace(',',' ').split()]
Fields(cmdstr) == SplitWs(Replace(Upper(cmdstr), <<",">>, <<" ">>), <<>>)

Digits == <<"0","1","2","3","4","5","6","7","8","9">>
IsDigit(c) == \E i \in 1..10 : Digits[i] = c
DigitVal(c) == (CHOOSE i \in 1..10 : Digits[i] = c) - 1

RECURSIVE ParseNat(_, _)
ParseNat(s, acc) ==
    IF s = <<>> THEN acc ELSE ParseNat(Tail(s), 10 * acc + DigitVal(s[1]))

\* float(x) on the integer literals of the model; anything else raises
ParseFloat(s) ==
    LET t == Strip(s)
        neg == t # <<>> /\ t[1] = "-"
        body == IF t # <<>> /\ t[1] \in {"-", "+"} THEN Tail(t) ELSE t
    IN IF body # <<>> /\ \A i \in 1..Len(body) : IsDigit(body[i])
       THEN (IF neg THEN 0 - ParseNat(body, 0) ELSE ParseNat(body, 0))
       ELSE NaN

\* conv_float(x): strip the unit letters anywhere in the token, then float();
\* a token float() rejects becomes NaN
conv_float(x) ==
    ParseFloat(Replace(Replace(Replace(Replace(x, <<"C">>, <<>>),
                                       <<"%">>, <<>>), <<"V">>, <<>>), <<"s">>, <<>>))

RECURSIVE NatText(_)
NatText(n) ==
    IF n < 10 THEN <<Digits[n+1]>> ELSE NatText(n \div 10) \o <<Digits[(n % 10) + 1]>>

\* the decimal text of an integer
IntText(n) == IF n < 0 THEN <<"-">> \o NatText(0 - n) ELSE NatText(n)

\* comparisons of floats: every comparison with NaN is false
FGe(a, b) == a # NaN /\ b # NaN /\ a >= b
FLe(a, b) == a # NaN /\ b # NaN /\ a <= b
FLt(a, b) == a # NaN /\ b # NaN /\ a < b


(* --------------------------- sensor catalogue -------------------------- *)
\* create_sensors(): the first two descriptors of the catalogue (SCPI names)
SensorNames == << <<"c","h","0">>, <<"c","h","1">> >>
SensorLabels == << <<"C","H","4">>, <<"C","H","4","_","T","E","M","P">> >>
NSensors == Len(SensorNames)

RECURSIVE Join(_, _)
\* sep.join(xs)
Join(xs, sep) ==
    IF xs = <<>> THEN <<>>
    ELSE IF Len(xs) = 1 THEN xs[1]
    ELSE xs[1] \o sep \o Join(Tail(xs), sep)

\* cmd_trig = ":TRIG:CONT:READ? " + ",".join(names)
cmd_trig == T_TRIG_PREFIX \o Join(SensorNames, <<",">>)

(* ------------------------- the instrument's lines ---------------------- *)
\* a continuous-mode line of the wire contract, and the empty line that a
\* timed-out readline() returns
L_SAMPLE == <<"1","s",",","3","V",",","4","V">>
L_EMPTY == <<>>

AnsLen == 8       \* length of an in-phase response of the instrument
LeakLen == 120    \* length of a continuous-mode line read as a response
CapLen == 5       \* length of an in-phase :SYST:CAP? response

(* ------------------------------ the state ------------------------------ *)
VARIABLES
    now,            \* wall clock (seconds)
    silent,         \* arg.silent
    inst,           \* instrument: "stream" (continuous mode) or "idle"
    link_ok,        \* FALSE once the serial link has failed
    gvsi,           \* the worker's serial handle: "open", "closed", "none"
    wpc,            \* position of the DAQ worker in its loop
    cont_read,      \* DAQ_process.cont_read
    idx,            \* DAQ_process.idx
    stamps,         \* time.time() at which each record was stamped, by seq
    tstart,         \* DAQ_process.tstart_ns (seconds)
    wavetime,       \* DAQ_process.wavetime
    wdt_start,      \* DAQ_process.wdt_start
    wcmd,           \* DAQ_process.cmd, the request being served
    response,       \* DAQ_process.response
    wq_time,        \* clock when the synchronous interval began
    wlog,           \* serial writes since the last synchronous interval began
    ctr_Q, cmd_Q, data_Q, err_Q, pool_Q,
    bufidx, bufadc, \* the sample ring
    data_queues,    \* subscriber FIFOs
    buf_lock,       \* who holds buf_lock (line 1046): "free" or "main"
    mpc,            \* the process controller: "options", "loop" or "done"
    state,          \* state of the controller's procedure (hmc_master.py:1179)
    boot,           \* arg.boot
    mtstart,        \* tstart of the controller, its time origin
    tgs_drift_val,  \* last CH4 drift it read, mV/min
    h2_drift_val,   \* last H2 drift it read, mV/min
    calls,          \* what the last pass of the loop sent, in order
    caught,         \* the last pass ended in the handler of line 1429
    trst,           \* when the server last served the controller's :CMD:TIME:RST
    tgs_base,       \* main.tgs_base, mV
    tgs_comp,       \* main.tgs_comp, mV
    calibrated,     \* the still-air calibration has completed
    ch4_comp,       \* the compensation added to the CH4 reading of the last exam
    curve_comp,     \* the compensation the calibration curves were computed with
    operation,      \* arg.operation
    wash_cycles,    \* arg.wash_cycles
    wash_n,         \* the count given with --wash
    motor,          \* the syringe motor: "on" while it moves, else "off"
    fills,          \* hid.goto(pos=50) calls of the wash so far
    empties,        \* hid.goto(pos=0) calls of the wash so far
    evt_terminate,  \* the terminate event
    spc,            \* position of the supervisor (main)
    fan,            \* main's iteration over data_queues: next index and outrec
    served,         \* the owners listed when the last fan-out began, and those it fed
    free_Qn,        \* free list of response slots
    cmd_lock,       \* holder of cmd_lock, 0 when free
    hpc,            \* position of each command handler
    hcmd,           \* each handler's cmd Namespace (cmd, resp_Qn, wait)
    hdata,          \* the request text each handler last received
    hresp,          \* each handler's resp / toffs locals
    hsent,          \* what each handler sent to its client, in order
    hexit,          \* why each handler left its loop
    hnreq,          \* requests received on each connection
    dpc,            \* position of the data handler
    dfields,        \* data_handler.fields
    dp0, dp1,       \* data_handler.p0, p1
    dsent,          \* what the data handler sent to its client, in order
    dnreq,          \* requests received on the data connection
    dring,          \* the ring as it was when the data request was received
    lpc,            \* position of each streaming data handler
    lsent,          \* what each streaming handler sent to its client, in order
    lpeer           \* each streaming client's end: "open", "fin" (closed), "rst"

wvars == <<wpc, cont_read, idx, stamps, tstart, wavetime, wdt_start, wcmd, response, wq_time, wlog>>
ivars == <<inst, link_ok, gvsi>>
qvars == <<ctr_Q, cmd_Q, data_Q, err_Q, pool_Q>>
rvars == <<bufidx, bufadc, data_queues>>
xvars == <<operation, wash_cycles, motor, fills, empties, wash_n>>
cvars == <<tgs_base, tgs_comp, calibrated, ch4_comp, curve_comp>>
evars == <<trst, xvars, cvars>>
mvars == <<mpc, state, boot, mtstart, tgs_drift_val, h2_drift_val, calls, caught, evars>>
fvars == <<fan, served>>
svars == <<evt_terminate, spc, fvars>>
hvars == <<free_Qn, cmd_lock, hpc, hcmd, hdata, hresp, hsent, hexit, hnreq>>
lvars == <<lpc, lsent, lpeer>>
dvars == <<dpc, dfields, dp0, dp1, dsent, dnreq, dring, lvars>>
vars == <<now, silent, buf_lock, mvars, wvars, ivars, qvars, rvars, svars, hvars, dvars>>

Conns == 1..NConn
Slots == 0..(max_handlers - 1)
Subs == 1..NSub

NoCmd == [cmd |-> <<>>, resp_Qn |-> 0, wait |-> 0, rid |-> 0]
NoResp == [kind |-> "none", val |-> 0, of |-> <<>>, len |-> 0, rid |-> 0]

\* the responses the worker puts on a slot; rid names the submitting handler
RespOK(c) == [kind |-> "OK", val |-> 0, of |-> <<>>, len |-> 2, rid |-> c.rid]
RespNOK(c) == [kind |-> "NOK", val |-> 0, of |-> <<>>, len |-> 3, rid |-> c.rid]
\* a reply that carries the time elapsed since the start time
RespTime_M(c, t) == [kind |-> "NUM", val |-> now - tstart, of |-> <<>>,
                     len |-> Len(IntText(now - tstart)), rid |-> c.rid]

\* f'{wavetime}'
RespTime(c, t) == [kind |-> "NUM", val |-> t, of |-> <<>>, len |-> Len(IntText(t)), rid |-> c.rid]
\* what gvsi.ask(text) reads back: the answer when the instrument is idle,
\* the next continuous-mode line when it is still streaming
AskResult(c, text) ==
    IF inst = "idle"
    THEN [kind |-> "ANS", val |-> 0, of |-> text, len |-> AnsLen, rid |-> c.rid]
    ELSE [kind |-> "LEAK", val |-> 0, of |-> <<>>, len |-> LeakLen, rid |-> c.rid]

Init ==
    /\ now = 0
    /\ silent \in BOOLEAN
    /\ inst = "stream"
    /\ link_ok = TRUE
    /\ gvsi = "open"
    /\ wpc = "read"
    /\ cont_read = TRUE
    /\ idx = 0
    /\ stamps = <<>>
    /\ tstart = 0
    /\ wavetime = 0
    /\ wdt_start = 0
    /\ wcmd = NoCmd
    /\ response = NoResp
    /\ wq_time = 0
    /\ wlog = <<cmd_trig>>
    /\ ctr_Q = <<>>
    /\ cmd_Q = <<>>
    /\ data_Q = <<>>
    /\ err_Q = <<>>
    /\ pool_Q = [s \in Slots |-> <<>>]
    /\ bufidx = <<>>
    /\ bufadc = <<>>
    /\ data_queues = <<>>
    /\ buf_lock = "free"
    /\ mpc = "options"
    /\ state = "INIT"
    /\ boot = FALSE
    /\ mtstart = 0
    /\ tgs_drift_val = 0
    /\ h2_drift_val = 0
    /\ calls = <<>>
    /\ caught = FALSE
    /\ trst = 0
    /\ tgs_base = 0
    /\ tgs_comp = 0
    /\ calibrated = FALSE
    /\ ch4_comp = NaN
    /\ curve_comp = NaN
    /\ operation = "NONE"
    /\ wash_cycles = 0
    /\ wash_n = 0
    /\ motor = "off"
    /\ fills = 0
    /\ empties = 0
    /\ evt_terminate = FALSE
    /\ spc = "loop"
    /\ fan = [i |-> 0, item |-> <<>>]
    /\ served = [from |-> {}, got |-> {}]
    /\ free_Qn = [i \in 1..max_handlers |-> i - 1]
    /\ cmd_lock = 0
    /\ hpc = [h \in Conns |-> "new"]
    /\ hcmd = [h \in Conns |-> NoCmd]
    /\ hdata = [h \in Conns |-> <<>>]
    /\ hresp = [h \in Conns |-> NoResp]
    /\ hsent = [h \in Conns |-> <<>>]
    /\ hexit = [h \in Conns |-> "none"]
    /\ hnreq = [h \in Conns |-> 0]
    /\ dpc = "new"
    /\ dfields = <<>>
    /\ dp0 = 0
    /\ dp1 = 0
    /\ dsent = <<>>
    /\ dnreq = 0
    /\ dring = <<>>
    /\ lpc = [l \in Subs |-> "new"]
    /\ lsent = [l \in Subs |-> <<>>]
    /\ lpeer = [l \in Subs |-> "open"]

(* ------------------------------ the clock ------------------------------ *)
Tick ==
    /\ \E d \in 1..MaxGap : now + d <= MaxTime /\ now' = now + d
    /\ UNCHANGED <<silent, buf_lock, mvars, wvars, ivars, qvars, rvars, svars, hvars, dvars>>

\* the serial link fails: every later read or write raises
SerialFault ==
    /\ link_ok
    /\ link_ok' = FALSE
    /\ UNCHANGED <<now, silent, buf_lock, mvars, inst, gvsi, wvars, qvars, rvars, svars, hvars, dvars>>


(* ---------------------------- the DAQ worker --------------------------- *)
T_IDN == <<"*","i","d","n","?">>
T_ABORT_MSG == "DAQ process ABORT"
T_EXIT_MSG == "DAQ process: EXIT"

\* a worker that takes every request for a valid one
valid_cmd_M(cmd) == TRUE

\* valid_cmd(cmd): cmd[0] in "*:" and len(cmd) > 1 (cmd is not empty here)
valid_cmd(cmd) == cmd[1] \in {"*", ":"} /\ Len(cmd) > 1

\* a serial read or write succeeds only on an open handle of a working link
CanIO == link_ok /\ gvsi = "open"

\* the instrument after it received a written text: a continuous trigger
\* starts the free-running mode, anything else leaves the mode alone
InstAfter(text) == IF Contains(text, T_TRIG_CONT) THEN "stream" ELSE inst

\* record = (idx, wavetime) + tuple(conv_float(x.strip()) for x in fields)
MakeRecord(i, t, line) ==
    LET fields == SplitComma(line, <<>>)
    IN <<i, t>> \o [k \in 1..Len(fields) |-> conv_float(Strip(fields[k]))]

\* lines 940-944: one line read, stamped and emitted on data_Q; readline
\* blocks until the line or the timeout, so the clock has advanced by d when
\* the record is stamped; lines are the lines the instrument may deliver,
\* gaps the durations of a read, maxs bounds the lines read in a run, tmax
\* the clock
W_ReadUntil(lines, gaps, maxs, tmax) ==
    /\ wpc = "read"
    /\ idx < maxs
    /\ IF CanIO
       THEN \E line \in (IF inst = "stream" THEN lines ELSE {L_EMPTY}),
               d \in gaps :
              /\ now + d <= tmax
              /\ now' = now + d
              /\ wavetime' = now' - tstart
              /\ data_Q' = Append(data_Q, MakeRecord(idx, now' - tstart, line))
              /\ idx' = idx + 1
              /\ stamps' = Append(stamps, now')
              /\ wpc' = "poll_cmd"
       ELSE /\ wpc' = "except"
            /\ UNCHANGED <<now, wavetime, data_Q, idx, stamps>>
    /\ UNCHANGED <<silent, buf_lock, mvars, ivars, cont_read, tstart, wdt_start, wcmd, response,
                   wq_time, wlog, ctr_Q, cmd_Q, err_Q, pool_Q, rvars, svars, hvars, dvars>>

W_Read(lines, gaps, maxs) == W_ReadUntil(lines, gaps, maxs, MaxTime)

\* a worker that answers every request on slot 0
RespSlot_M(c) == 0

\* the slot the worker answers on: resp_Q = pool_Q[cmd.resp_Qn]
RespSlot(c) == c.resp_Qn

\* lines 945-960 and 1011-1012: non-blocking poll of cmd_Q; the time reset is
\* served without touching the link, any other valid request stops the stream;
\* insts are the modes the instrument may be in once Q has been written
W_PollCmd(insts) ==
    /\ wpc = "poll_cmd"
    /\ IF cmd_Q = <<>>
       THEN /\ wpc' = "tail"
            /\ UNCHANGED <<cmd_Q, pool_Q, tstart, wcmd, cont_read, wq_time, wlog, inst>>
       ELSE LET cmd == Head(cmd_Q)
                cmdstr == Upper(cmd.cmd)
            IN /\ cmd_Q' = Tail(cmd_Q)
               /\ wcmd' = cmd
               /\ IF cmdstr = <<>>
                  THEN /\ wpc' = "except"
                       /\ UNCHANGED <<pool_Q, tstart, cont_read, wq_time, wlog, inst>>
                  ELSE IF valid_cmd(cmdstr)
                  THEN IF Contains(cmdstr, T_TIME_RST)
                       THEN /\ tstart' = now
                            /\ pool_Q' = [pool_Q EXCEPT ![RespSlot(cmd)] =
                                             Append(@, RespTime(cmd, wavetime))]
                            /\ wpc' = "tail"
                            /\ UNCHANGED <<cont_read, wq_time, wlog, inst>>
                       ELSE IF CanIO
                            THEN /\ wlog' = <<T_Q>>
                                 /\ \E st \in insts : inst' = st
                                 /\ cont_read' = FALSE
                                 /\ wq_time' = now
                                 /\ wpc' = "sync"
                                 /\ UNCHANGED <<pool_Q, tstart>>
                            ELSE /\ wpc' = "except"
                                 /\ UNCHANGED <<pool_Q, tstart, cont_read, wq_time, wlog, inst>>
                  ELSE /\ pool_Q' = [pool_Q EXCEPT ![RespSlot(cmd)] = Append(@, RespNOK(cmd))]
                       /\ wpc' = "tail"
                       /\ UNCHANGED <<tstart, cont_read, wq_time, wlog, inst>>
    /\ UNCHANGED <<now, silent, buf_lock, mvars, link_ok, gvsi, idx, stamps, wavetime, wdt_start, response,
                   ctr_Q, data_Q, err_Q, rvars, svars, hvars, dvars>>

\* a worker that takes every response as in phase
AfterResponse_M(r, retry) == "reply"

\* where the worker goes once it holds a response: re-sync when oversized
AfterResponse(r, retry) ==
    IF r.len > MaxRespLen THEN retry ELSE "reply"

\* a worker that sends the request without the pre-wait
W_Sync_M ==
    /\ wpc = "sync"
    /\ now' = now
    /\ LET cmdstr == Upper(wcmd.cmd)
       IN IF CanIO
          THEN /\ wlog' = Append(wlog, cmdstr)
               /\ response' = IF Contains(cmdstr, <<"?">>)
                              THEN AskResult(wcmd, cmdstr) ELSE RespOK(wcmd)
               /\ inst' = InstAfter(cmdstr)
               /\ wpc' = AfterResponse(response', "resync")
          ELSE /\ wpc' = "except"
               /\ UNCHANGED <<wlog, response, inst>>
    /\ UNCHANGED <<silent, buf_lock, mvars, link_ok, gvsi, cont_read, idx, stamps, tstart, wavetime, wdt_start,
                   wcmd, wq_time, qvars, rvars, svars, hvars, dvars>>

\* lines 962-969: sleep for the pre-wait, then send the request; read one
\* response line when it is a query; the sleep is bounded by MaxTime, past
\* it only a request without pre-wait is served
W_Sync ==
    /\ wpc = "sync"
    /\ now + wcmd.wait <= (IF now > MaxTime THEN now ELSE MaxTime)
    /\ now' = now + wcmd.wait
    /\ LET cmdstr == Upper(wcmd.cmd)
       IN IF CanIO
          THEN /\ wlog' = Append(wlog, cmdstr)
               /\ response' = IF Contains(cmdstr, <<"?">>)
                              THEN AskResult(wcmd, cmdstr) ELSE RespOK(wcmd)
               /\ inst' = InstAfter(cmdstr)
               /\ wpc' = AfterResponse(response', "resync")
          ELSE /\ wpc' = "except"
               /\ UNCHANGED <<wlog, response, inst>>
    /\ UNCHANGED <<silent, buf_lock, mvars, link_ok, gvsi, cont_read, idx, stamps, tstart, wavetime, wdt_start,
                   wcmd, wq_time, qvars, rvars, svars, hvars, dvars>>

\* a re-sync that delivers whatever the retry read
W_Resync_M ==
    /\ wpc = "resync"
    /\ LET cmdstr == Upper(wcmd.cmd)
       IN IF CanIO
          THEN \E st \in {"idle", "stream"} :
                 /\ wlog' = wlog \o <<T_Q, T_Q, T_Q, T_CLS, cmdstr>>
                 /\ response' = IF Contains(cmdstr, <<"?">>)
                                THEN (IF st = "idle"
                                      THEN [kind |-> "ANS", val |-> 0, of |-> cmdstr,
                                            len |-> AnsLen, rid |-> wcmd.rid]
                                      ELSE [kind |-> "LEAK", val |-> 0, of |-> <<>>,
                                            len |-> LeakLen, rid |-> wcmd.rid])
                                ELSE response
                 /\ inst' = IF Contains(cmdstr, T_TRIG_CONT) THEN "stream" ELSE st
                 /\ wpc' = "reply"
          ELSE /\ wpc' = "except"
               /\ UNCHANGED <<wlog, response, inst>>
    /\ UNCHANGED <<now, silent, buf_lock, mvars, link_ok, gvsi, cont_read, idx, stamps, tstart, wavetime, wdt_start,
                   wcmd, wq_time, qvars, rvars, svars, hvars, dvars>>

\* lines 971-988: Q, Q, Q, *cls, then the request once more
W_Resync ==
    /\ wpc = "resync"
    /\ LET cmdstr == Upper(wcmd.cmd)
       IN IF CanIO
          THEN \E st \in {"idle", "stream"} :
                 /\ wlog' = wlog \o <<T_Q, T_Q, T_Q, T_CLS, cmdstr>>
                 /\ response' = IF Contains(cmdstr, <<"?">>)
                                THEN (IF st = "idle"
                                      THEN [kind |-> "ANS", val |-> 0, of |-> cmdstr,
                                            len |-> AnsLen, rid |-> wcmd.rid]
                                      ELSE [kind |-> "LEAK", val |-> 0, of |-> <<>>,
                                            len |-> LeakLen, rid |-> wcmd.rid])
                                ELSE response
                 /\ inst' = IF Contains(cmdstr, T_TRIG_CONT) THEN "stream" ELSE st
                 /\ wpc' = AfterResponse(response', "reopen")
          ELSE /\ wpc' = "except"
               /\ UNCHANGED <<wlog, response, inst>>
    /\ UNCHANGED <<now, silent, buf_lock, mvars, link_ok, gvsi, cont_read, idx, stamps, tstart, wavetime, wdt_start,
                   wcmd, wq_time, qvars, rvars, svars, hvars, dvars>>

\* lines 989-1004: close and reopen the link, probe with :SYST:CAP?; the
\* client gets NOK when the probe is in phase, the worker fails otherwise
W_Reopen ==
    /\ wpc = "reopen"
    /\ \/ \* Instrument() finds no device, or the link is broken
          /\ gvsi' = "none"
          /\ wpc' = "except"
          /\ UNCHANGED <<wlog, response, inst, cont_read>>
       \/ /\ link_ok
          /\ gvsi' = "open"
          /\ \E st \in {"idle", "stream"} :
               /\ inst' = st
               /\ wlog' = wlog \o <<T_IDN, T_SYST_CAP>>
               /\ IF (IF st = "idle" THEN CapLen ELSE LeakLen) > MaxCapLen
                  THEN /\ wpc' = "except"
                       /\ response' = [kind |-> "LEAK", val |-> 0, of |-> <<>>,
                                       len |-> LeakLen, rid |-> wcmd.rid]
                       /\ UNCHANGED cont_read
                  ELSE /\ wpc' = "reply"
                       /\ response' = RespNOK(wcmd)
                       /\ cont_read' = FALSE
    /\ UNCHANGED <<now, silent, buf_lock, mvars, link_ok, idx, stamps, tstart, wavetime, wdt_start,
                   wcmd, wq_time, qvars, rvars, svars, hvars, dvars>>

\* lines 1005-1010: deliver the response on the request's slot, then re-send
\* the continuous trigger
W_Reply ==
    /\ wpc = "reply"
    /\ pool_Q' = [pool_Q EXCEPT ![RespSlot(wcmd)] = Append(@, response)]
    /\ IF CanIO
       THEN /\ wlog' = Append(wlog, cmd_trig)
            /\ inst' = "stream"
            /\ cont_read' = TRUE
            /\ wpc' = "tail"
       ELSE /\ wpc' = "except"
            /\ UNCHANGED <<wlog, inst, cont_read>>
    /\ UNCHANGED <<now, silent, buf_lock, mvars, link_ok, gvsi, idx, stamps, tstart, wavetime, wdt_start, wcmd,
                   response, wq_time, ctr_Q, cmd_Q, data_Q, err_Q, rvars, svars, hvars, dvars>>

\* lines 1013-1028: non-blocking poll of ctr_Q (abort: Q, *RST, leave the
\* loop), then the keepalive of the continuous mode
W_Tail ==
    /\ wpc = "tail"
    /\ IF ctr_Q # <<>>
       THEN /\ ctr_Q' = Tail(ctr_Q)
            /\ IF Head(ctr_Q) = "DAQ_ABORT"
               THEN IF CanIO
                    THEN /\ wlog' = wlog \o (IF cont_read THEN <<T_Q>> ELSE <<>>) \o <<T_RST>>
                         /\ cont_read' = FALSE
                         /\ inst' = "idle"
                         /\ wpc' = "exit"
                         /\ UNCHANGED wdt_start
                    ELSE /\ wpc' = "except"
                         /\ UNCHANGED <<wlog, cont_read, inst, wdt_start>>
               ELSE /\ wpc' = "read"
                    /\ UNCHANGED <<wlog, cont_read, inst, wdt_start>>
       ELSE /\ UNCHANGED <<ctr_Q, cont_read, inst>>
            /\ IF cont_read /\ (now - wdt_start) > WdtPeriod
               THEN IF CanIO
                    THEN /\ wdt_start' = now
                         /\ wlog' = Append(wlog, T_KEEPALIVE)
                         /\ wpc' = "read"
                    ELSE /\ wdt_start' = now
                         /\ wpc' = "except"
                         /\ UNCHANGED wlog
               ELSE /\ wpc' = "read"
                    /\ UNCHANGED <<wlog, wdt_start>>
    /\ UNCHANGED <<now, silent, buf_lock, mvars, link_ok, gvsi, idx, stamps, tstart, wavetime, wcmd, response,
                   wq_time, cmd_Q, data_Q, err_Q, pool_Q, rvars, svars, hvars, dvars>>

\* lines 1029-1031: any exception in the loop is reported and ends the loop
W_Except ==
    /\ wpc = "except"
    /\ err_Q' = IF silent THEN err_Q ELSE Append(err_Q, T_ABORT_MSG)
    /\ wpc' = "exit"
    /\ UNCHANGED <<now, silent, buf_lock, mvars, ivars, cont_read, idx, stamps, tstart, wavetime, wdt_start, wcmd,
                   response, wq_time, wlog, ctr_Q, cmd_Q, data_Q, pool_Q, rvars, svars,
                   hvars, dvars>>

\* lines 1032-1035: beep, close, report EXIT; the beep and the close raise,
\* uncaught, on a handle that is gone or a link that is broken
W_Exit ==
    /\ wpc = "exit"
    /\ IF gvsi = "none" \/ (~silent /\ ~link_ok)
       THEN /\ wpc' = "crashed"
            /\ UNCHANGED <<gvsi, err_Q>>
       ELSE /\ gvsi' = "closed"
            /\ err_Q' = IF silent THEN err_Q ELSE Append(err_Q, T_EXIT_MSG)
            /\ wpc' = "done"
    /\ UNCHANGED <<now, silent, buf_lock, mvars, inst, link_ok, cont_read, idx, stamps, tstart, wavetime, wdt_start,
                   wcmd, response, wq_time, wlog, ctr_Q, cmd_Q, data_Q, pool_Q, rvars,
                   svars, hvars, dvars>>


(* ---------------------------- the supervisor --------------------------- *)
\* any(x in err_msg for x in ("ABORT", "EXIT")), on the messages of the model
IsFatalMsg(m) == m \in {T_ABORT_MSG, T_EXIT_MSG}

\* lines 1636-1638: the oldest record is dropped when the window is exceeded
Evict(ring) ==
    IF (ring[Len(ring)][2] - ring[1][2]) > bufsize THEN Tail(ring) ELSE ring

\* the same test, applied to the values buffer kept in step with the index
EvictAdc(ring, adc) ==
    IF (ring[Len(ring)][2] - ring[1][2]) > bufsize THEN Tail(adc) ELSE adc

\* outrec: the time and one formatted value per sensor, in sensor order
\* (the format templates leave the integers of the model as they are)
OutRec(t, record) == <<t>> \o [i \in 1..NSensors |-> record[i]]

\* a subscriber FIFO: the mp.Queue a streaming handler created (line 1450);
\* fed tells whether anything was ever put on it
NewFifo(l) == [owner |-> l, items |-> <<>>, fed |-> FALSE]

\* a put that places the record at the head of the FIFO
FanOut_M(f, item) == [f EXCEPT !.items = <<item>> \o @, !.fed = TRUE]

\* q.put(outrec), line 1642
FanOut(f, item) == [f EXCEPT !.items = Append(@, item), !.fed = TRUE]

\* lines 1630-1644: one record taken from data_Q, appended to the ring under
\* buf_lock with at most one eviction, then fanned out to the subscribers;
\* a record with fewer values than sensors raises before the fan-out
S_Append ==
    /\ spc = "loop"
    /\ buf_lock = "free"
    /\ data_Q # <<>>
    /\ LET rec == Head(data_Q)
           record == SubSeq(rec, 3, Len(rec))
           ring == Append(bufidx, <<rec[1], rec[2]>>)
       IN /\ data_Q' = Tail(data_Q)
          /\ bufidx' = Evict(ring)
          /\ bufadc' = EvictAdc(ring, Append(bufadc, record))
          /\ data_queues' = IF Len(record) >= NSensors /\ data_queues # <<>>
                            THEN [q \in 1..Len(data_queues) |->
                                     FanOut(data_queues[q],
                                            [seq |-> rec[1],
                                             line |-> OutRec(rec[2], record)])]
                            ELSE data_queues
    /\ UNCHANGED <<now, silent, buf_lock, mvars, wvars, ivars, ctr_Q, cmd_Q, err_Q, pool_Q, svars, hvars, dvars>>

\* the handlers whose FIFO is on the subscriber list
Owners(list) == {list[k].owner : k \in 1..Len(list)}

\* lines 1632-1640: one record taken from data_Q and appended to the ring
\* with at most one eviction; outrec is formatted and the iteration over
\* data_queues begins (a record with fewer values than sensors raises
\* before it)
S_Take ==
    /\ spc = "loop"
    /\ buf_lock = "free"
    /\ data_Q # <<>>
    /\ LET rec == Head(data_Q)
           record == SubSeq(rec, 3, Len(rec))
           ring == Append(bufidx, <<rec[1], rec[2]>>)
       IN /\ data_Q' = Tail(data_Q)
          /\ bufidx' = Evict(ring)
          /\ bufadc' = EvictAdc(ring, Append(bufadc, record))
          /\ IF Len(record) >= NSensors
             THEN /\ spc' = "fanout"
                  /\ fan' = [i |-> 0, item |-> [seq |-> rec[1],
                                                line |-> OutRec(rec[2], record)]]
                  /\ served' = [from |-> Owners(data_queues), got |-> {}]
             ELSE UNCHANGED <<spc, fan, served>>
    /\ UNCHANGED <<now, silent, buf_lock, mvars, wvars, ivars, ctr_Q, cmd_Q, err_Q, pool_Q,
                   data_queues, evt_terminate, hvars, dvars>>

\* lines 1641-1642, one step of `for q in data_queues: q.put(outrec)`: the
\* list iterator yields the element at its index in the list as it is now
\* and moves its index on, or ends once the index has reached the length
S_Put ==
    /\ spc = "fanout"
    /\ IF fan.i < Len(data_queues)
       THEN /\ data_queues' = [data_queues EXCEPT ![fan.i + 1] = FanOut(@, fan.item)]
            /\ fan' = [fan EXCEPT !.i = @ + 1]
            /\ served' = [served EXCEPT !.got = @ \cup {data_queues[fan.i + 1].owner}]
            /\ UNCHANGED spc
       ELSE /\ spc' = "loop"
            /\ fan' = [i |-> 0, item |-> <<>>]
            /\ UNCHANGED <<data_queues, served>>
    /\ UNCHANGED <<now, silent, buf_lock, mvars, wvars, ivars, qvars, bufidx, bufadc,
                   evt_terminate, hvars, dvars>>

\* lines 1632-1635: main takes buf_lock, takes one record from data_Q and
\* appends it to bufidx and bufadc; the eviction is still to come
S_Lock ==
    /\ spc = "loop"
    /\ buf_lock = "free"
    /\ data_Q # <<>>
    /\ LET rec == Head(data_Q)
       IN /\ data_Q' = Tail(data_Q)
          /\ bufidx' = Append(bufidx, <<rec[1], rec[2]>>)
          /\ bufadc' = Append(bufadc, SubSeq(rec, 3, Len(rec)))
    /\ buf_lock' = "main"
    /\ spc' = "locked"
    /\ UNCHANGED <<now, silent, mvars, wvars, ivars, ctr_Q, cmd_Q, err_Q, pool_Q,
                   data_queues, evt_terminate, fvars, hvars, dvars>>

\* lines 1636-1642: the eviction that ends the locked block, the release of
\* buf_lock and the fan-out of the record just appended
S_Unlock ==
    /\ spc = "locked"
    /\ LET rec == bufidx[Len(bufidx)]
           record == bufadc[Len(bufadc)]
       IN /\ bufidx' = Evict(bufidx)
          /\ bufadc' = EvictAdc(bufidx, bufadc)
          /\ data_queues' = IF Len(record) >= NSensors /\ data_queues # <<>>
                            THEN [q \in 1..Len(data_queues) |->
                                     FanOut(data_queues[q],
                                            [seq |-> rec[1],
                                             line |-> OutRec(rec[2], record)])]
                            ELSE data_queues
    /\ buf_lock' = "free"
    /\ spc' = "loop"
    /\ UNCHANGED <<now, silent, mvars, wvars, ivars, qvars, evt_terminate, fvars, hvars, dvars>>

\* lines 1648-1652: one error message taken; ABORT or EXIT sets terminate
S_Err ==
    /\ spc = "loop"
    /\ err_Q # <<>>
    /\ err_Q' = Tail(err_Q)
    /\ evt_terminate' = (evt_terminate \/ IsFatalMsg(Head(err_Q)))
    /\ UNCHANGED <<now, silent, buf_lock, mvars, wvars, ivars, ctr_Q, cmd_Q, data_Q, pool_Q, rvars, spc, fvars,
                   hvars, dvars>>

\* lines 1627 and 1669-1671: the loop ends once terminate is set; the worker
\* is told to abort
S_Shutdown ==
    /\ spc = "loop"
    /\ evt_terminate
    /\ ctr_Q' = Append(ctr_Q, "DAQ_ABORT")
    /\ spc' = "joining"
    /\ UNCHANGED <<now, silent, buf_lock, mvars, wvars, ivars, cmd_Q, data_Q, err_Q, pool_Q, rvars,
                   evt_terminate, fvars, hvars, dvars>>

\* lines 1672-1719: the worker process is terminated, the remaining messages
\* are printed and every client socket is closed
S_Kill ==
    /\ spc = "joining"
    /\ wpc' = IF wpc \in {"done", "crashed"} THEN wpc ELSE "killed"
    /\ err_Q' = <<>>
    /\ spc' = "done"
    /\ UNCHANGED <<now, silent, buf_lock, mvars, ivars, cont_read, idx, stamps, tstart, wavetime, wdt_start, wcmd,
                   response, wq_time, wlog, ctr_Q, cmd_Q, data_Q, pool_Q, rvars,
                   evt_terminate, fvars, hvars, dvars>>


(* ------------------------- the command handlers ------------------------ *)
\* what a handler sends to its client
Reply(kind, val) == [kind |-> kind, val |-> val, of |-> <<>>, len |-> 0, rid |-> 0]

\* a client socket is closed under a handler when main closes the sockets
SockClosed == spc = "done"

\* a handler exit that keeps its slot
H_Leave_M(h, why) ==
    /\ free_Qn' = free_Qn
    /\ hpc' = [hpc EXCEPT ![h] = "closed"]
    /\ hexit' = [hexit EXCEPT ![h] = why]

\* lines 1363-1370: the slot goes back to the free list, the socket is closed
H_Leave(h, why) ==
    /\ free_Qn' = Append(free_Qn, hcmd[h].resp_Qn)
    /\ hpc' = [hpc EXCEPT ![h] = "closed"]
    /\ hexit' = [hexit EXCEPT ![h] = why]

\* a rejection that tells the client ERR before closing
Rejected_M(h) ==
    /\ err_Q' = IF silent THEN err_Q ELSE Append(err_Q, "out of queue resources")
    /\ hpc' = [hpc EXCEPT ![h] = "closed"]
    /\ hexit' = [hexit EXCEPT ![h] = "rejected"]
    /\ hsent' = [hsent EXCEPT ![h] = Append(@, Reply("ERR", 0))]
    /\ UNCHANGED <<free_Qn, hcmd>>

\* what the handler does with no free slot (lines 1365-1370): the error goes
\* to err_Q, the socket is closed, nothing is sent to the client
Rejected(h) ==
    /\ err_Q' = IF silent THEN err_Q ELSE Append(err_Q, "out of queue resources")
    /\ hpc' = [hpc EXCEPT ![h] = "closed"]
    /\ hexit' = [hexit EXCEPT ![h] = "rejected"]
    /\ UNCHANGED <<free_Qn, hcmd, hsent>>

\* lines 1384-1388 and 1134-1138: a connection is accepted and its handler
\* takes a response slot from the free list
H_Accept(h) ==
    /\ hpc[h] = "new"
    /\ spc # "done"
    /\ IF Len(free_Qn) > 0
       THEN /\ free_Qn' = SubSeq(free_Qn, 1, Len(free_Qn) - 1)
            /\ hcmd' = [hcmd EXCEPT ![h] = [cmd |-> <<>>, resp_Qn |-> free_Qn[Len(free_Qn)],
                                            wait |-> 0, rid |-> h]]
            /\ hpc' = [hpc EXCEPT ![h] = "loop"]
            /\ UNCHANGED <<err_Q, hexit, hsent>>
       ELSE Rejected(h)
    /\ UNCHANGED <<now, silent, buf_lock, mvars, wvars, ivars, ctr_Q, cmd_Q, data_Q, pool_Q, rvars, svars,
                   cmd_lock, hdata, hresp, hnreq, dvars>>

\* The test of line 1134 and the pop of line 1136 are two steps of a handler
\* thread and no lock is held between them: other handlers run in between.
\* line 1134: the handler tests the free list
H_Enter(h) ==
    /\ hpc[h] = "new"
    /\ spc # "done"
    /\ IF Len(free_Qn) > 0
       THEN /\ hpc' = [hpc EXCEPT ![h] = "alloc"]
            /\ UNCHANGED <<free_Qn, hcmd, err_Q, hexit, hsent>>
       ELSE Rejected(h)
    /\ UNCHANGED <<now, silent, buf_lock, mvars, wvars, ivars, ctr_Q, cmd_Q, data_Q, pool_Q, rvars, svars,
                   cmd_lock, hdata, hresp, hnreq, dvars>>

\* lines 1135-1138: the handler pops its slot; the pop of a list that another
\* handler has emptied since the test raises IndexError outside every try,
\* and the thread ends with no slot and without closing its socket
H_Alloc(h) ==
    /\ hpc[h] = "alloc"
    /\ IF Len(free_Qn) > 0
       THEN /\ free_Qn' = SubSeq(free_Qn, 1, Len(free_Qn) - 1)
            /\ hcmd' = [hcmd EXCEPT ![h] = [cmd |-> <<>>, resp_Qn |-> free_Qn[Len(free_Qn)],
                                            wait |-> 0, rid |-> h]]
            /\ hpc' = [hpc EXCEPT ![h] = "loop"]
            /\ UNCHANGED hexit
       ELSE /\ hpc' = [hpc EXCEPT ![h] = "dead"]
            /\ hexit' = [hexit EXCEPT ![h] = "indexerror"]
            /\ UNCHANGED <<free_Qn, hcmd>>
    /\ UNCHANGED <<now, silent, buf_lock, mvars, wvars, ivars, qvars, rvars, svars, cmd_lock, hdata,
                   hresp, hsent, hnreq, dvars>>

\* line 1140: the loop condition
H_Check(h) ==
    /\ hpc[h] = "loop"
    /\ IF evt_terminate
       THEN H_Leave(h, "terminate")
       ELSE /\ hpc' = [hpc EXCEPT ![h] = "recv"]
            /\ UNCHANGED <<free_Qn, hexit>>
    /\ UNCHANGED <<now, silent, buf_lock, mvars, wvars, ivars, qvars, rvars, svars, cmd_lock, hcmd, hdata,
                   hresp, hsent, hnreq, dvars>>

\* lines 1143-1146 and 1357-1359: the peer closed the connection, or main
\* closed the socket under the blocked recv
H_Disconnect(h) ==
    /\ hpc[h] = "recv"
    /\ H_Leave(h, IF SockClosed THEN "oserror" ELSE "disconnect")
    /\ err_Q' = IF SockClosed /\ ~silent THEN Append(err_Q, "Socket error") ELSE err_Q
    /\ UNCHANGED <<now, silent, buf_lock, mvars, wvars, ivars, ctr_Q, cmd_Q, data_Q, pool_Q, rvars, svars,
                   cmd_lock, hcmd, hdata, hresp, hsent, hnreq, dvars>>

\* the dispatch of lines 1151-1356 on fields[0]
IsInternal(f0) ==
    f0 \in {T_SHUTDOWN, T_DROP, T_VERS, T_BUFSZ, T_TIME_MIN, T_TIME_MAX, T_NAMES,
            T_TIME_RST, T_READ, T_DRIFT, T_PEAK}
IsDelayed(f0) == Contains(f0, T_RST) \/ Contains(f0, T_SAV) \/ Contains(f0, T_RCL)

\* the text a forwarding branch stores in cmd.cmd (lines 1211, 1337, 1344, 1352)
ForwardText(cmdstr, f0) ==
    IF f0 = T_TIME_RST THEN Upper(cmdstr)
    ELSE IF f0 = T_TRIG_CONT THEN Replace(Upper(cmdstr), T_CONT, <<>>)
    ELSE cmdstr

\* the pre-wait a forwarding branch stores in cmd.wait: only the *RST / :SAV
\* / :RCL branch assigns it (line 1345), the others leave the old value
ForwardWait(old, f0) ==
    IF f0 # T_TIME_RST /\ f0 # T_TRIG_CONT /\ IsDelayed(f0) THEN RstWait ELSE old

\* the requests whose branch this model follows: every request but the ring
\* queries with arguments and the droplet sequence
Modelled(data) ==
    LET fields == Fields(Strip(data))
    IN IF fields = <<>> THEN TRUE
       ELSE fields[1] \notin {T_DROP, T_READ, T_DRIFT, T_PEAK}

\* lines 1143-1356 up to the first blocking point: one request is received,
\* tokenized and dispatched; a request served locally is answered here, a
\* forwarded one goes on to take cmd_lock; an exception that escapes the
\* branch (no token at all, a read of the empty ring) ends the handler
H_Recv(h, data, maxreq) ==
    /\ hpc[h] = "recv"
    /\ ~SockClosed
    /\ hnreq[h] < maxreq
    /\ Modelled(data)
    /\ hnreq' = [hnreq EXCEPT ![h] = @ + 1]
    /\ hdata' = [hdata EXCEPT ![h] = data]
    /\ LET cmdstr == Strip(data)
           fields == Fields(cmdstr)
       IN IF fields = <<>>
          THEN /\ H_Leave(h, "exception")
               /\ err_Q' = IF silent THEN err_Q ELSE Append(err_Q, "Error handling client")
               /\ UNCHANGED <<hcmd, hsent, evt_terminate>>
          ELSE LET f0 == fields[1] IN
            IF f0 = T_SHUTDOWN
            THEN /\ hsent' = [hsent EXCEPT ![h] = Append(@, Reply("ABORT", 0))]
                 /\ evt_terminate' = TRUE
                 /\ hpc' = [hpc EXCEPT ![h] = "loop"]
                 /\ UNCHANGED <<free_Qn, hexit, hcmd, err_Q>>
            ELSE IF f0 \in {T_VERS, T_BUFSZ, T_NAMES}
            THEN /\ hsent' = [hsent EXCEPT ![h] = Append(@,
                                 IF f0 = T_BUFSZ THEN Reply("NUM", bufsize)
                                 ELSE IF f0 = T_VERS THEN Reply("VERS", 0)
                                 ELSE Reply("NAMES", 0))]
                 /\ hpc' = [hpc EXCEPT ![h] = "loop"]
                 /\ UNCHANGED <<free_Qn, hexit, hcmd, err_Q, evt_terminate>>
            ELSE IF f0 \in {T_TIME_MIN, T_TIME_MAX}
            THEN IF bufidx = <<>>
                 THEN /\ H_Leave(h, "exception")
                      /\ err_Q' = IF silent THEN err_Q
                                  ELSE Append(err_Q, "Error handling client")
                      /\ UNCHANGED <<hcmd, hsent, evt_terminate>>
                 ELSE /\ hsent' = [hsent EXCEPT ![h] = Append(@, Reply("NUM",
                                      IF f0 = T_TIME_MIN THEN bufidx[1][2]
                                      ELSE bufidx[Len(bufidx)][2]))]
                      /\ hpc' = [hpc EXCEPT ![h] = "loop"]
                      /\ UNCHANGED <<free_Qn, hexit, hcmd, err_Q, evt_terminate>>
            ELSE /\ hcmd' = [hcmd EXCEPT ![h].cmd = ForwardText(cmdstr, f0),
                                         ![h].wait = ForwardWait(@, f0)]
                 /\ hpc' = [hpc EXCEPT ![h] = "lock"]
                 /\ UNCHANGED <<free_Qn, hexit, hsent, err_Q, evt_terminate>>
    /\ UNCHANGED <<now, silent, buf_lock, mvars, wvars, ivars, ctr_Q, cmd_Q, data_Q, pool_Q, rvars, spc, fvars,
                   cmd_lock, hresp, dvars>>

\* lines 1212-1213 (and 1338, 1346, 1353): cmd_lock is taken and the request
\* is put on cmd_Q
H_Submit(h) ==
    /\ hpc[h] = "lock"
    /\ cmd_lock = 0
    /\ cmd_lock' = h
    /\ cmd_Q' = Append(cmd_Q, hcmd[h])
    /\ hpc' = [hpc EXCEPT ![h] = "await"]
    /\ UNCHANGED <<now, silent, buf_lock, mvars, wvars, ivars, ctr_Q, data_Q, err_Q, pool_Q, rvars, svars,
                   free_Qn, hcmd, hdata, hresp, hsent, hexit, hnreq, dvars>>

\* float(resp), 0.0 when resp is not a number (lines 1215-1218)
Toffs(resp) == IF resp.kind = "NUM" THEN resp.val ELSE 0

\* the slot a handler waits on: pool_Q[cmd.resp_Qn]
AwaitSlot(h) == hcmd[h].resp_Qn

\* lines 1214 and 1348-1356: the response is taken from the handler's slot
\* and cmd_lock released; a forwarded request is answered with the response,
\* the time reset goes on to shift the ring
H_Await(h) ==
    /\ hpc[h] = "await"
    /\ pool_Q[AwaitSlot(h)] # <<>>
    /\ LET resp == Head(pool_Q[AwaitSlot(h)])
       IN /\ pool_Q' = [pool_Q EXCEPT ![AwaitSlot(h)] = Tail(@)]
          /\ cmd_lock' = 0
          /\ hresp' = [hresp EXCEPT ![h] = resp]
          /\ IF Fields(Strip(hdata[h]))[1] = T_TIME_RST
             THEN /\ hpc' = [hpc EXCEPT ![h] = "rst_apply"]
                  /\ UNCHANGED <<hsent, free_Qn, hexit, err_Q>>
             ELSE IF SockClosed
                  THEN /\ H_Leave(h, "oserror")
                       /\ err_Q' = IF silent THEN err_Q ELSE Append(err_Q, "Socket error")
                       /\ UNCHANGED hsent
                  ELSE /\ hsent' = [hsent EXCEPT ![h] = Append(@, resp)]
                       /\ hpc' = [hpc EXCEPT ![h] = "loop"]
                       /\ UNCHANGED <<free_Qn, hexit, err_Q>>
    /\ UNCHANGED <<now, silent, buf_lock, mvars, wvars, ivars, ctr_Q, cmd_Q, data_Q, rvars, svars,
                   hcmd, hdata, hnreq, dvars>>

\* a shift that leaves the newest record in the old time base
ShiftRing_M(ring, toffs) ==
    IF ring = <<>> THEN <<>>
    ELSE [i \in 1..Len(ring) |->
            IF i = Len(ring) THEN ring[i] ELSE <<ring[i][1], ring[i][2] - toffs>>]

\* lines 1219-1221: every t of the ring is moved back by toffs
ShiftRing(ring, toffs) ==
    IF ring = <<>> THEN <<>>
    ELSE [i \in 1..Len(ring) |-> <<ring[i][1], ring[i][2] - toffs>>]

\* lines 1219-1222: under buf_lock the ring is shifted by the offset, then
\* the worker's reply is sent to the client
H_RstApply(h) ==
    /\ hpc[h] = "rst_apply"
    /\ buf_lock = "free"
    /\ bufidx' = ShiftRing(bufidx, Toffs(hresp[h]))
    /\ IF SockClosed
       THEN /\ H_Leave(h, "oserror")
            /\ err_Q' = IF silent THEN err_Q ELSE Append(err_Q, "Socket error")
            /\ UNCHANGED hsent
       ELSE /\ hsent' = [hsent EXCEPT ![h] = Append(@, hresp[h])]
            /\ hpc' = [hpc EXCEPT ![h] = "loop"]
            /\ UNCHANGED <<free_Qn, hexit, err_Q>>
    /\ UNCHANGED <<now, silent, buf_lock, mvars, wvars, ivars, ctr_Q, cmd_Q, data_Q, pool_Q, bufadc,
                   data_queues, svars, cmd_lock, hcmd, hdata, hresp, hnreq, dvars>>


(* --------------------------- the query engine -------------------------- *)
\* a scan that stops at the last index whose time is <= t
find_time_index_M(ring, t) ==
    IF ring = <<>> THEN 0
    ELSE IF FGe(t, ring[1][2]) /\ FLe(t, ring[Len(ring)][2])
         THEN (CHOOSE p \in 1..Len(ring) :
                  /\ FGe(t, ring[p][2])
                  /\ \A q \in (p+1)..Len(ring) : ~FGe(t, ring[q][2])) - 1
         ELSE IF FLt(t, ring[1][2]) THEN 0
         ELSE Len(ring) - 1

\* find_time_index(t), indices counted from 0 as in the source: the first
\* index whose time is >= t when t lies within the ring, 0 below the ring,
\* the last index above it (and for NaN), 0 on the empty ring (IndexError).
\* Every entry of bufidx is a [recno, wavetime] pair, so the orphan-dropping
\* loops never remove anything.
find_time_index(ring, t) ==
    IF ring = <<>> THEN 0
    ELSE IF FGe(t, ring[1][2]) /\ FLe(t, ring[Len(ring)][2])
         THEN (CHOOSE p \in 1..Len(ring) :
                  /\ FLe(t, ring[p][2])
                  /\ \A q \in 1..(p-1) : ~FLe(t, ring[q][2])) - 1
         ELSE IF FLt(t, ring[1][2]) THEN 0
         ELSE Len(ring) - 1

\* xs[a:b] of a Python list, indices counted from 0, negative ones from the end
Slice(xs, a, b) ==
    LET n == Len(xs)
        lo0 == IF a < 0 THEN a + n ELSE a
        hi0 == IF b < 0 THEN b + n ELSE b
        lo == IF lo0 < 0 THEN 0 ELSE IF lo0 > n THEN n ELSE lo0
        hi == IF hi0 < 0 THEN 0 ELSE IF hi0 > n THEN n ELSE hi0
    IN SubSeq(xs, lo + 1, hi)

\* a - b on floats
FSub(a, b) == IF a = NaN \/ b = NaN THEN NaN ELSE a - b

\* np.median(X): NaN for an empty X or one that holds a NaN, the middle value,
\* or the mean of the two middle values (the values of the model that meet
\* in one window have an integer mean)
Median(X) ==
    IF X = <<>> \/ \E i \in 1..Len(X) : X[i] = NaN THEN NaN
    ELSE LET s == SortSeq(X, LAMBDA a, b : a < b)
             n == Len(s)
         IN IF n % 2 = 1 THEN s[(n + 1) \div 2]
            ELSE (s[n \div 2] + s[n \div 2 + 1]) \div 2

\* the slice bufadc[p0:p1+1] of median_avg(s, p1, period), lines 1079-1086
MedianWindow(ring, adc, p1, period) ==
    Slice(adc, find_time_index(ring, FSub(ring[p1 + 1][2], period)), p1 + 1)

\* median_avg(s, p1, period), lines 1079-1088; s and p1 count from 0
median_avg(ring, adc, s, p1, period) ==
    LET W == MedianWindow(ring, adc, p1, period)
    IN Median(IF W = <<>> THEN <<>> ELSE [k \in 1..Len(W) |-> W[k][s + 1]])

\* tuple(Sensor.labels()).index(label), counted from 0
LabelIndex(label) == (CHOOSE i \in 1..Len(SensorLabels) : SensorLabels[i] = label) - 1
IsLabel(f) == \E i \in 1..Len(SensorLabels) : SensorLabels[i] = f

\* the time a :CMD:READ? <label> request asks for (lines 1237-1240)
ReadTime(fields, ring) ==
    IF Len(fields) > 2
    THEN IF fields[3] = T_MAX THEN ring[Len(ring)][2]
         ELSE IF fields[3] = T_MIN THEN ring[1][2]
         ELSE conv_float(fields[3])
    ELSE ring[Len(ring)][2]

\* lines 1228-1251: the reply to :CMD:READ? <label>[, <time>[, <period>]];
\* "ERR" when the label is unknown or the time lies outside the ring, the
\* text of the exception when an index is out of range (no argument, the
\* empty ring, a record with too few values), else the value of the sensor at
\* find_time_index(t), or its median over the window that ends there; the
\* sensor's format is applied to either value alike and is left out
ReadReply(fields, ring, adc) ==
    IF Len(fields) < 2 THEN Reply("ERR_EXC", 0)
    ELSE IF ~IsLabel(fields[2]) THEN Reply("ERR", 0)
    ELSE IF ring = <<>> THEN Reply("ERR_EXC", 0)
    ELSE LET sns == LabelIndex(fields[2])
             t == ReadTime(fields, ring)
             pos == find_time_index(ring, t)
         IN IF ~(FGe(t, ring[1][2]) /\ FLe(t, ring[Len(ring)][2])) THEN Reply("ERR", 0)
            ELSE IF Len(fields) > 3
            THEN IF \E k \in 1..Len(MedianWindow(ring, adc, pos, conv_float(fields[4]))) :
                       Len(MedianWindow(ring, adc, pos, conv_float(fields[4]))[k]) < sns + 1
                 THEN Reply("ERR_EXC", 0)
                 ELSE Reply("VAL", median_avg(ring, adc, sns, pos, conv_float(fields[4])))
            ELSE IF Len(adc[pos + 1]) < sns + 1 THEN Reply("ERR_EXC", 0)
                 ELSE Reply("VAL", adc[pos + 1][sns + 1])

\* the :CMD:READ? requests this model follows: those that name a sensor
ReadModelled(data) ==
    LET fields == Fields(Strip(data))
    IN fields # <<>> /\ fields[1] = T_READ /\ (Len(fields) < 2 \/ fields[2] # T_ALL)

\* lines 1143-1151 and 1223-1253: a :CMD:READ? request is received and
\* answered from the ring; the lookup and the read of the values are made
\* under buf_lock
H_Read(h, data, maxreq) ==
    /\ hpc[h] = "recv"
    /\ ~SockClosed
    /\ hnreq[h] < maxreq
    /\ ReadModelled(data)
    /\ buf_lock = "free"
    /\ hnreq' = [hnreq EXCEPT ![h] = @ + 1]
    /\ hdata' = [hdata EXCEPT ![h] = data]
    /\ hsent' = [hsent EXCEPT ![h] = Append(@, ReadReply(Fields(Strip(data)), bufidx, bufadc))]
    /\ hpc' = [hpc EXCEPT ![h] = "loop"]
    /\ UNCHANGED <<now, silent, buf_lock, mvars, wvars, ivars, qvars, rvars, svars, free_Qn, cmd_lock,
                   hcmd, hexit, hresp, dvars>>

(* --------------------------- the data handler -------------------------- *)
\* ":DATA:READ? <a>, <b>" as the client writes it
DataReadText(a, b) == T_DATA_READ \o <<" ">> \o IntText(a) \o <<",", " ">> \o IntText(b)

\* lines 1532-1536 and 1433: a data connection is accepted
D_Accept ==
    /\ dpc = "new"
    /\ spc # "done"
    /\ dpc' = "loop"
    /\ UNCHANGED <<now, silent, buf_lock, mvars, wvars, ivars, qvars, rvars, svars, hvars,
                   dfields, dp0, dp1, dsent, dnreq, dring, lvars>>

\* line 1436: the loop condition
D_Check ==
    /\ dpc = "loop"
    /\ dpc' = IF evt_terminate THEN "closed" ELSE "recv"
    /\ UNCHANGED <<now, silent, buf_lock, mvars, wvars, ivars, qvars, rvars, svars, hvars,
                   dfields, dp0, dp1, dsent, dnreq, dring, lvars>>

\* lines 1439-1442 and 1508-1510: the peer closed, or main closed the socket
D_Disconnect ==
    /\ dpc = "recv"
    /\ dpc' = "closed"
    /\ err_Q' = IF SockClosed /\ ~silent THEN Append(err_Q, "Socket error") ELSE err_Q
    /\ UNCHANGED <<now, silent, buf_lock, mvars, wvars, ivars, ctr_Q, cmd_Q, data_Q, pool_Q, rvars, svars,
                   hvars, dfields, dp0, dp1, dsent, dnreq, dring, lvars>>

\* what the data handler sends: a record line, or a status word
DLine(seq, t, record) == [kind |-> "REC", seq |-> seq, t |-> t,
                          vals |-> [i \in 1..NSensors |-> record[i]]]
DWord(w) == [kind |-> w, seq |-> 0, t |-> 0, vals |-> <<>>]

\* the data requests this model follows
DModelled(data) ==
    LET fields == Fields(Strip(data))
    IN IF fields = <<>> THEN TRUE ELSE fields[1] # T_DATA_LISTEN

\* lines 1439-1479, 1464-1468 and 1505-1514: one request received and
\* tokenized; :DATA:NAMES? and unknown requests are answered at once,
\* :DATA:READ? starts from p1 = len(bufidx), p0 = p1 - 1; a request with no
\* token raises outside the branches: it is reported and raised again, the
\* handler thread dies and its socket is left open
D_Recv(data, maxreq) ==
    /\ dpc = "recv"
    /\ ~SockClosed
    /\ dnreq < maxreq
    /\ DModelled(data)
    /\ dnreq' = dnreq + 1
    /\ dring' = bufidx
    /\ LET fields == Fields(Strip(data))
       IN /\ dfields' = fields
          /\ IF fields = <<>>
             THEN /\ dpc' = "dead"
                  /\ err_Q' = IF silent THEN err_Q
                              ELSE Append(err_Q, "Error handling client")
                  /\ UNCHANGED <<dsent, dp0, dp1>>
             ELSE IF fields[1] = T_DATA_NAMES
             THEN /\ dsent' = Append(dsent, DWord("NAMES"))
                  /\ dpc' = "loop"
                  /\ UNCHANGED <<dp0, dp1, err_Q>>
             ELSE IF fields[1] = T_DATA_READ
             THEN /\ dp1' = Len(bufidx)
                  /\ dp0' = Len(bufidx) - 1
                  /\ dpc' = IF Len(fields) > 1 THEN "index0" ELSE "collect"
                  /\ UNCHANGED <<dsent, err_Q>>
             ELSE /\ dsent' = Append(dsent, DWord("ERR"))
                  /\ dpc' = "loop"
                  /\ UNCHANGED <<dp0, dp1, err_Q>>
    /\ UNCHANGED <<now, silent, buf_lock, mvars, wvars, ivars, ctr_Q, cmd_Q, data_Q, pool_Q, rvars, svars,
                   hvars, lvars>>

\* lines 1480-1484: p0 from the start time, outside buf_lock
D_Index0 ==
    /\ dpc = "index0"
    /\ dp0' = find_time_index(bufidx, conv_float(dfields[2]))
    /\ dp1' = dp0' + 1
    /\ dpc' = IF Len(dfields) > 2 THEN "index1" ELSE "collect"
    /\ UNCHANGED <<now, silent, buf_lock, mvars, wvars, ivars, qvars, rvars, svars, hvars,
                   dfields, dsent, dnreq, dring, lvars>>

\* lines 1485-1487: p1 from the end time, outside buf_lock
D_Index1 ==
    /\ dpc = "index1"
    /\ dp1' = find_time_index(bufidx, conv_float(dfields[3])) + 1
    /\ dpc' = "collect"
    /\ UNCHANGED <<now, silent, buf_lock, mvars, wvars, ivars, qvars, rvars, svars, hvars,
                   dfields, dp0, dsent, dnreq, dring, lvars>>

\* the lines of bufidx[p0:p1] zipped with bufadc[p0:p1]
Collect(ring, adc, p0, p1) ==
    LET is == Slice(ring, p0, p1)
        as == Slice(adc, p0, p1)
        n == IF Len(is) < Len(as) THEN Len(is) ELSE Len(as)
    IN IF n = 0 THEN <<>> ELSE [k \in 1..n |-> <<is[k], as[k]>>]

\* lines 1489-1504: under buf_lock the records of bufidx[p0:p1] are copied,
\* then sent in order, then OK; a record with fewer values than sensors
\* raises while formatting and the reply is ERR alone
D_Collect ==
    /\ dpc = "collect"
    /\ buf_lock = "free"
    /\ LET got == Collect(bufidx, bufadc, dp0, dp1)
       IN dsent' = IF \E k \in 1..Len(got) : Len(got[k][2]) < NSensors
                   THEN Append(dsent, DWord("ERR"))
                   ELSE dsent \o (IF got = <<>> THEN <<>>
                                   ELSE [k \in 1..Len(got) |->
                                           DLine(got[k][1][1], got[k][1][2], got[k][2])])
                              \o <<DWord("OK")>>
    /\ dpc' = "loop"
    /\ UNCHANGED <<now, silent, buf_lock, mvars, wvars, ivars, qvars, rvars, svars, hvars,
                   dfields, dp0, dp1, dnreq, dring, lvars>>

(* ---------------------- the streaming data handlers -------------------- *)
\* the data_handler threads whose client asks for :DATA:LISTEN
\* the FIFO of handler l, once it is on the subscriber list
Subscribed(l) == \E k \in 1..Len(data_queues) : data_queues[k].owner = l
OwnFifo(l) == data_queues[CHOOSE k \in 1..Len(data_queues) : data_queues[k].owner = l]

\* main closed every FIFO of the list (lines 1710-1716); empty() then raises
\* on a FIFO whose feeder thread ran, and goes on answering True on one that
\* was never fed
EmptyRaises(f) == spc = "done" /\ f.fed

\* lines 1532-1536 and 1433: a data connection is accepted
L_Accept(l) ==
    /\ lpc[l] = "new"
    /\ spc # "done"
    /\ lpc' = [lpc EXCEPT ![l] = "loop"]
    /\ UNCHANGED <<now, silent, buf_lock, mvars, wvars, ivars, qvars, rvars, svars, hvars,
                   dpc, dfields, dp0, dp1, dsent, dnreq, dring, lsent, lpeer>>

\* line 1436: the loop condition
L_Check(l) ==
    /\ lpc[l] = "loop"
    /\ lpc' = [lpc EXCEPT ![l] = IF evt_terminate THEN "closed" ELSE "recv"]
    /\ UNCHANGED <<now, silent, buf_lock, mvars, wvars, ivars, qvars, rvars, svars, hvars,
                   dpc, dfields, dp0, dp1, dsent, dnreq, dring, lsent, lpeer>>

\* the client closes its end of the connection
L_PeerClose(l) ==
    /\ lpc[l] \in {"loop", "recv", "listen", "leave"}
    /\ lpeer[l] = "open"
    /\ lpeer' = [lpeer EXCEPT ![l] = "fin"]
    /\ UNCHANGED <<now, silent, buf_lock, mvars, wvars, ivars, qvars, rvars, svars, hvars,
                   dpc, dfields, dp0, dp1, dsent, dnreq, dring, lpc, lsent>>

\* lines 1439-1442 and 1508-1510: recv() returns nothing once the peer has
\* closed, and raises once main has closed the socket
L_Disconnect(l) ==
    /\ lpc[l] = "recv"
    /\ lpeer[l] # "open" \/ SockClosed
    /\ lpc' = [lpc EXCEPT ![l] = "closed"]
    /\ err_Q' = IF SockClosed /\ ~silent THEN Append(err_Q, "Socket error") ELSE err_Q
    /\ UNCHANGED <<now, silent, buf_lock, mvars, wvars, ivars, ctr_Q, cmd_Q, data_Q, pool_Q, rvars, svars,
                   hvars, dpc, dfields, dp0, dp1, dsent, dnreq, dring, lsent, lpeer>>

\* lines 1439-1451: :DATA:LISTEN is received; the handler creates its FIFO
\* and appends it to the subscriber list
L_Recv(l) ==
    /\ lpc[l] = "recv"
    /\ lpeer[l] = "open"
    /\ ~SockClosed
    /\ data_queues' = Append(data_queues, NewFifo(l))
    /\ lpc' = [lpc EXCEPT ![l] = "listen"]
    /\ UNCHANGED <<now, silent, buf_lock, mvars, wvars, ivars, qvars, bufidx, bufadc, svars, hvars,
                   dpc, dfields, dp0, dp1, dsent, dnreq, dring, lsent, lpeer>>

\* lines 1452-1460, one step of the forward loop that changes the state:
\* empty() raises on a FIFO that main closed; otherwise the oldest record is
\* taken and sent.  sendall raises when main has closed the socket or the
\* peer has reset the connection; the first send after the peer's close may
\* still be accepted.  An exception ends the loop.  On an empty FIFO the
\* loop spins without changing anything.
L_Forward(l) ==
    /\ lpc[l] = "listen"
    /\ LET f == OwnFifo(l)
           raised == /\ lpc' = [lpc EXCEPT ![l] = "leave"]
                     /\ err_Q' = IF silent THEN err_Q ELSE Append(err_Q, "data_handler: Error")
                     /\ UNCHANGED <<lsent, lpeer>>
           taken == [k \in 1..Len(data_queues) |->
                        IF data_queues[k].owner = l
                        THEN [data_queues[k] EXCEPT !.items = Tail(@)]
                        ELSE data_queues[k]]
       IN IF EmptyRaises(f)
          THEN raised /\ UNCHANGED data_queues
          ELSE /\ f.items # <<>>
               /\ data_queues' = taken
               /\ IF SockClosed \/ lpeer[l] = "rst"
                  THEN raised
                  ELSE IF lpeer[l] = "fin"
                  THEN \/ raised
                       \/ /\ lpeer' = [lpeer EXCEPT ![l] = "rst"]
                          /\ UNCHANGED <<lpc, lsent, err_Q>>
                  ELSE /\ lsent' = [lsent EXCEPT ![l] = Append(@, Head(f.items))]
                       /\ UNCHANGED <<lpc, lpeer, err_Q>>
    /\ UNCHANGED <<now, silent, buf_lock, mvars, wvars, ivars, ctr_Q, cmd_Q, data_Q, pool_Q, bufidx, bufadc,
                   svars, hvars, dpc, dfields, dp0, dp1, dsent, dnreq, dring>>

\* lines 1461-1463 and 1515-1519: the FIFO is removed from the subscriber
\* list and closed, the socket is closed
L_Leave(l) ==
    /\ lpc[l] = "leave"
    /\ data_queues' = SelectSeq(data_queues, LAMBDA f : f.owner # l)
    /\ lpc' = [lpc EXCEPT ![l] = "closed"]
    /\ UNCHANGED <<now, silent, buf_lock, mvars, wvars, ivars, qvars, bufidx, bufadc, svars, hvars,
                   dpc, dfields, dp0, dp1, dsent, dnreq, dring, lsent, lpeer>>

(* ------------------------------ the clients --------------------------- *)
R_TIME_RST == <<":","c","m","d",":","t","i","m","e",":","r","s","t","\n">>
R_IDN == <<"*","i","d","n","?">>
R_HELLO == <<"h","e","l","l","o">>
R_BLANK == <<" ","\n">>
\* a continuous trigger as a client writes it, the same without the blank,
\* and two requests that arrive in one recv()
R_TRIG == <<":","t","r","i","g",":","c","o","n","t",":","r","e","a","d","?"," ","c","h","0">>
R_TRIG_NOSP == <<":","t","r","i","g",":","c","o","n","t",":","r","e","a","d","?","c","h","0">>
R_TWO_LINES == R_IDN \o <<"\n">> \o R_TRIG

MaxQueryTime == 3     \* largest time a data client asks for
QueryTimes == 0..MaxQueryTime

\* the requests the data client sends
DataRequests == {DataReadText(a, b) : a \in QueryTimes, b \in QueryTimes}

(* -------------------------- the specifications ------------------------- *)
RECURSIVE Received(_)
\* the requests received on the connections 1..n
Received(n) == IF n = 0 THEN 0 ELSE hnreq[n] + Received(n - 1)
\* connections are numbered in the order they are accepted
A_Accept(h) == (\A g \in 1..(h-1) : hpc[g] # "new") /\ H_Accept(h)
\* a request arrives while the budget of the n clients lasts
A_Recv(h, data, n, maxreq) == Received(n) < maxreq /\ H_Recv(h, data, maxreq)

\* the durations of a blocking read
Gaps == 1..MaxGap
\* the instrument has stopped streaming when the request is written, or not
InstModes == {"idle", "stream"}
\* The ring: the worker stamps samples, the supervisor appends and evicts,
\* one command client resets the time base.
NextRing ==
    \/ Tick
    \/ W_Read({L_SAMPLE}, Gaps, RingSamples)
    \/ W_PollCmd(InstModes)
    \/ W_Tail
    \/ S_Append
    \/ H_Accept(1)
    \/ H_Check(1)
    \/ H_Recv(1, R_TIME_RST, RingRequests)
    \/ H_Submit(1)
    \/ H_Await(1)
    \/ H_RstApply(1)

Spec == Init /\ [][NextRing]_vars

\* The data port: the worker and the supervisor fill the ring while one data
\* client asks for time windows.
NextData ==
    \/ Tick
    \/ W_Read({L_SAMPLE}, Gaps, DataSamples)
    \/ W_PollCmd(InstModes)
    \/ W_Tail
    \/ S_Append
    \/ D_Accept
    \/ D_Check
    \/ \E data \in DataRequests : D_Recv(data, DataRequests1)
    \/ D_Index0
    \/ D_Index1
    \/ D_Collect
    \/ D_Disconnect

SpecData == Init /\ [][NextData]_vars

\* The response slots: command clients, numbered in the order they connect,
\* send forwarded requests and time resets, come and go, while the worker
\* serves them; the instrument obeys Q at once, and MuxRequests bounds the
\* requests of all clients together.
MuxTexts == {R_IDN, R_TIME_RST}
NextMux ==
    \/ W_Read({L_SAMPLE}, {1}, MuxSamples)
    \/ W_PollCmd({"idle"})
    \/ W_Sync
    \/ W_Reply
    \/ W_Tail
    \/ \E h \in 1..MuxConns :
          \/ A_Accept(h)
          \/ H_Check(h)
          \/ H_Disconnect(h)
          \/ \E data \in MuxTexts : A_Recv(h, data, MuxConns, MuxRequests)
          \/ H_Submit(h)
          \/ H_Await(h)
          \/ H_RstApply(h)

\* no step of this specification reads arg.silent
InitMux == Init /\ ~silent
SpecMux == InitMux /\ [][NextMux]_vars

\* The synchronous interval: one command client sends forwarded requests,
\* the instrument may answer in or out of phase, the link may fail, and the
\* supervisor shuts the server down when the worker reports its end.
SyncTexts == {R_IDN, T_RST}
NextSync ==
    \/ SerialFault
    \/ W_Read({L_SAMPLE, L_EMPTY}, {1}, SyncSamples)
    \/ W_PollCmd(InstModes)
    \/ W_Sync
    \/ W_Resync
    \/ W_Reopen
    \/ W_Reply
    \/ W_Tail
    \/ W_Except
    \/ W_Exit
    \/ S_Append
    \/ S_Err
    \/ S_Shutdown
    \/ S_Kill
    \/ H_Accept(1)
    \/ H_Check(1)
    \/ H_Disconnect(1)
    \/ \E data \in SyncTexts : H_Recv(1, data, SyncRequests)
    \/ H_Submit(1)
    \/ H_Await(1)

SpecSync == Init /\ [][NextSync]_vars

\* The steps of the worker process, of the supervisor and of a handler
\* thread that need nothing from outside (no request, no disconnection, no
\* serial fault)
WorkerStep ==
    \/ W_PollCmd(InstModes) \/ W_Sync \/ W_Resync \/ W_Reopen \/ W_Reply
    \/ W_Tail \/ W_Except \/ W_Exit
SupervisorStep == S_Append \/ S_Shutdown \/ S_Kill
HandlerStep(h) == H_Check(h) \/ H_Submit(h) \/ H_Await(h)

\* The end of the worker: one command client forwards a query while the
\* link may fail and the instrument may stay out of phase; the supervisor
\* reads err_Q and shuts the server down.
NextFatal ==
    \/ SerialFault
    \/ W_Read({L_SAMPLE}, {1}, FatalSamples)
    \/ WorkerStep
    \/ SupervisorStep
    \/ S_Err
    \/ H_Accept(1)
    \/ \E data \in {R_IDN} : H_Recv(1, data, FatalRequests)
    \/ HandlerStep(1)

\* The worker process, the supervisor and the handler thread keep running:
\* each takes its next step as long as it has one, and the supervisor's loop
\* comes to err_Q on every pass.  The client and the serial link owe
\* nothing.
FairFatal ==
    /\ WF_vars(WorkerStep)
    /\ WF_vars(SupervisorStep)
    /\ WF_vars(S_Err)
    /\ WF_vars(HandlerStep(1))

SpecFatal == Init /\ [][NextFatal]_vars /\ FairFatal

\* The dispatch: a command client sends requests the server cannot serve.
DispTexts == {R_HELLO, R_BLANK, T_TIME_MIN}
NextDisp ==
    \/ W_Read({L_SAMPLE}, {1}, DispSamples)
    \/ W_PollCmd(InstModes)
    \/ W_Tail
    \/ S_Append
    \/ S_Err
    \/ H_Accept(1)
    \/ H_Check(1)
    \/ \E data \in DispTexts : H_Recv(1, data, DispRequests)
    \/ H_Submit(1)
    \/ H_Await(1)

SpecDisp == Init /\ [][NextDisp]_vars

\* The slot pool: more command clients than response slots connect, ask for
\* the buffer size and leave; the supervisor takes the error messages.
NextSlots ==
    \/ S_Err
    \/ \E h \in Conns :
          \/ A_Accept(h)
          \/ H_Check(h)
          \/ H_Disconnect(h)
          \/ A_Recv(h, T_BUFSZ, NConn, SlotRequests)

SpecSlots == Init /\ [][NextSlots]_vars

\* The slot allocation step by step: the command clients connect, ask for the
\* buffer size or send a blank line, and leave, in every interleaving of the
\* handler threads.
A_Enter(h) == (\A g \in 1..(h-1) : hpc[g] # "new") /\ H_Enter(h)
PoolTexts == {T_BUFSZ, R_BLANK}
NextPool ==
    \/ S_Err
    \/ \E h \in Conns :
          \/ A_Enter(h)
          \/ H_Alloc(h)
          \/ H_Check(h)
          \/ H_Disconnect(h)
          \/ \E data \in PoolTexts : A_Recv(h, data, NConn, PoolRequests)

SpecPool == Init /\ [][NextPool]_vars

\* The queries: the worker and the supervisor fill the ring while one command
\* client resets the time base and reads a sensor at a time of its choice,
\* as a point or as a median over a window of no length.
MaxReadTime == 1      \* largest time, of either sign, a command client asks for
ReadText(label, t, period) ==
    <<":","c","m","d",":","r","e","a","d","?"," ">> \o label \o <<",", " ">> \o IntText(t)
        \o <<",", " ">> \o IntText(period) \o <<"\n">>
ReadTexts == {ReadText(SensorLabels[1], t, 0) : t \in (0 - MaxReadTime)..MaxReadTime}
NextQuery ==
    \/ W_Read({L_SAMPLE}, Gaps, QuerySamples)
    \/ W_PollCmd(InstModes)
    \/ W_Tail
    \/ S_Append
    \/ H_Accept(1)
    \/ H_Check(1)
    \/ H_Recv(1, R_TIME_RST, QueryRequests)
    \/ \E data \in ReadTexts : H_Read(1, data, QueryRequests)
    \/ H_Submit(1)
    \/ H_Await(1)
    \/ H_RstApply(1)

SpecQuery == Init /\ [][NextQuery]_vars

\* The steps of a streaming handler that need nothing more from its client
ListenerStep(l) == L_Check(l) \/ L_Disconnect(l) \/ L_Forward(l) \/ L_Leave(l)
\* streaming connections are numbered in the order they are accepted
A_Listen(l) == (\A g \in 1..(l-1) : lpc[g] # "new") /\ L_Accept(l)

\* The stream: streaming clients subscribe and leave while the worker and the
\* supervisor produce samples.
NextStream ==
    \/ W_Read({L_SAMPLE}, {1}, StreamSamples)
    \/ W_PollCmd(InstModes)
    \/ W_Tail
    \/ S_Append
    \/ \E l \in 1..StreamSubs :
          \/ A_Listen(l)
          \/ L_Recv(l)
          \/ L_PeerClose(l)
          \/ ListenerStep(l)

SpecStream == Init /\ [][NextStream]_vars

FanSubs == 2         \* streaming clients of the fan-out
FanSamples == 2      \* samples the worker reads for the fan-out

\* The fan-out step by step: the supervisor walks the subscriber list while
\* streaming handlers subscribe and leave.
NextFan ==
    \/ W_Read({L_SAMPLE}, {1}, FanSamples)
    \/ W_PollCmd({"idle"})
    \/ W_Tail
    \/ S_Take
    \/ S_Put
    \/ \E l \in 1..FanSubs :
          \/ A_Listen(l)
          \/ L_Recv(l)
          \/ L_PeerClose(l)
          \/ ListenerStep(l)

SpecFan == Init /\ [][NextFan]_vars

\* The steps of the worker while no request is forwarded to it
IdleWorkerStep == W_PollCmd(InstModes) \/ W_Tail \/ W_Except \/ W_Exit

\* The end of the stream: one streaming client subscribes and may leave; the
\* link may fail, and the supervisor shuts the server down when the worker
\* reports its end.
NextStop ==
    \/ SerialFault
    \/ W_Read({L_SAMPLE}, {1}, StopSamples)
    \/ IdleWorkerStep
    \/ SupervisorStep
    \/ S_Err
    \/ L_Accept(1)
    \/ L_Recv(1)
    \/ L_PeerClose(1)
    \/ ListenerStep(1)

\* The worker process, the supervisor and the handler thread keep running;
\* the client and the serial link owe nothing.
FairStop ==
    /\ WF_vars(IdleWorkerStep)
    /\ WF_vars(SupervisorStep)
    /\ WF_vars(S_Err)
    /\ WF_vars(ListenerStep(1))

SpecStop == Init /\ [][NextStop]_vars /\ FairStop

\* The shutdown on request: one command client sends :CMD:HMC:SHUTDOWN to a
\* healthy server; the supervisor tells the worker to abort and, after its
\* wait, terminates the worker process.
R_SHUTDOWN == <<":","c","m","d",":","h","m","c",":","s","h","u","t","d","o","w","n","\n">>
AbortWorkerStep == W_PollCmd(InstModes) \/ W_Tail \/ W_Exit
AbortHandlerStep == H_Check(1) \/ H_Disconnect(1)
NextAbort ==
    \/ W_Read({L_SAMPLE}, {1}, AbortSamples)
    \/ AbortWorkerStep
    \/ SupervisorStep
    \/ H_Accept(1)
    \/ H_Recv(1, R_SHUTDOWN, AbortRequests)
    \/ AbortHandlerStep

\* The worker process, the supervisor and the handler thread keep running;
\* the client owes nothing.
FairAbort ==
    /\ WF_vars(AbortWorkerStep)
    /\ WF_vars(SupervisorStep)
    /\ WF_vars(AbortHandlerStep)

SpecAbort == Init /\ [][NextAbort]_vars /\ FairAbort

\* The keepalive: the instrument delivers a line every second for longer than
\* the watchdog period, while one command client sends a query that the
\* instrument answers in phase.
NextKeep ==
    \/ W_ReadUntil({L_SAMPLE}, {1}, KeepSamples, KeepTime)
    \/ W_PollCmd({"idle"})
    \/ W_Sync
    \/ W_Reply
    \/ W_Tail
    \/ S_Append
    \/ H_Accept(1)
    \/ H_Check(1)
    \/ H_Recv(1, R_IDN, KeepRequests)
    \/ H_Submit(1)
    \/ H_Await(1)

SpecKeep == Init /\ [][NextKeep]_vars

\* The trigger: one command client sends continuous triggers in several
\* spellings, the worker serves what the handler forwards.
TrigTexts == {R_TRIG, R_TRIG_NOSP, R_TWO_LINES}
(* ------------------- the process controller (hmc_master.py) ----------- *)
\* arg.ch4_base_drift and arg.h2_base_drift, mV/min (lines 91 and 90)
ch4_base_drift == 2
h2_base_drift == 5

\* the waits of lines 1261 and 1245/1308, seconds
BaselineWait == 240
T105Wait == 107

\* how long one pass of the loop takes, seconds: every send sleeps first
\* (line 984) and the pass may block on the server or on the operator
PassTimes == {60, 120}

\* the passes of a state that only tests the time (lines 1245, 1308) follow
\* each other at once: the test is made 107 s after the origin, or earlier
\* or later
SpinTimes == {47, 60}

\* send() sleeps before it writes (lines 981-984), seconds
SendWait == 1

\* a drift answer after conv_float and the scaling by 1e3 (lines 1068, 1075)
DriftReplies == {0 - 10, 0 - 1, 3, NaN}

\* everything of the acquisition server
daqvars == <<silent, buf_lock, wvars, ivars, qvars, rvars, svars, hvars, dvars>>

\* a test that forgets the sign of the drift
Stable_M(val, drift) == val # NaN /\ val <= drift

\* lines 1069 and 1076: abs(val) <= drift, false for nan
Stable(val, drift) == val # NaN /\ (IF val < 0 THEN 0 - val ELSE val) <= drift

\* time.time() when the pass makes its test
Elapse == \E d \in PassTimes : now + d <= MaxProcTime /\ now' = now + d

\* time.time() at the test of a state that does not sleep
Spin == \E d \in SpinTimes : now + d <= MaxProcTime /\ now' = now + d

\* the calls a pass has made when its k-th call raises (k = 0: none raises)
Sent(list, k) == IF k = 0 THEN list ELSE SubSeq(list, 1, k)

\* lines 250-251 and 1170-1182: the options are read, the time origin is
\* taken and the loop starts in INIT
P_Options(b) ==
    /\ mpc = "options"
    /\ mpc' = "loop"
    /\ boot' = b
    /\ mtstart' = now
    /\ UNCHANGED <<now, state, tgs_drift_val, h2_drift_val, calls, caught, evars, daqvars>>

\* calib["tgs_comp"] as read from the calibration file, mV (19e-3 V)
calib_tgs_comp == 19
\* the CH4 levels the server reports at the start of the still air and at
\* 105.5 s, mV
BaseReadings == {100}
T105Readings == {107, 119}

\* lines 1187-1199: the calibration curves are computed from the file
\* values, the PIDs are booted and the setpoints read
P_Init(k) ==
    /\ mpc = "loop"
    /\ state = "INIT"
    /\ Elapse
    /\ calls' = Sent(<<"boot_pids", ":pwm2:pid:setp?", ":pwm3:pid:setp?",
                       ":pwm4:pid:setp?">>, k)
    /\ caught' = (k # 0)
    /\ state' = IF k = 0 THEN "TEMP_STABILIZING" ELSE state
    /\ curve_comp' = calib_tgs_comp
    /\ UNCHANGED <<mpc, boot, mtstart, tgs_drift_val, h2_drift_val, trst, xvars,
                   tgs_base, tgs_comp, calibrated, ch4_comp, daqvars>>

\* lines 1200-1216: the temperatures are read; within their tolerances the
\* controller beeps and goes to WAIT_BASELINES
P_TempStabilizing(ok, k) ==
    /\ mpc = "loop"
    /\ state = "TEMP_STABILIZING"
    /\ k # 0 => (k = 4 => ok)
    /\ Elapse
    /\ calls' = Sent(<<":CMD:READ? CH4_TEMP", ":CMD:READ? COLDSIDE_TEMP",
                       ":CMD:READ? HOTPLATE_TEMP">>
                     \o (IF ok THEN <<":SYST:BEEP 1.0">> ELSE <<>>), k)
    /\ caught' = (k # 0)
    /\ state' = IF k = 0 /\ ok THEN "WAIT_BASELINES" ELSE state
    /\ UNCHANGED <<mpc, boot, mtstart, tgs_drift_val, h2_drift_val, evars, daqvars>>

\* lines 1255-1276: baselines and drifts are read; with both drifts stable
\* and 240 s passed the controller goes to the calibration (arg.boot, which
\* it clears) or, after the operator's ENTER, to EXAM_START
P_WaitBaselines(tgs, h2, k) ==
    /\ mpc = "loop"
    /\ state = "WAIT_BASELINES"
    /\ Elapse
    /\ LET ready == /\ now' - mtstart >= BaselineWait
                    /\ Stable(tgs, ch4_base_drift)
                    /\ Stable(h2, h2_base_drift)
           polls == <<":CMD:READ? ch4, max, 2.0", ":CMD:BASE:DRIFT? ch4, 60.0",
                      ":CMD:READ? h2, max, 2.0", ":CMD:BASE:DRIFT? h2, 60.0">>
       IN /\ k = 5 => (ready /\ ~boot)
          /\ tgs_drift_val' = IF k \in {1, 2} THEN tgs_drift_val ELSE tgs
          /\ h2_drift_val' = IF k \in 1..4 THEN h2_drift_val ELSE h2
          /\ caught' = (k # 0)
          /\ IF k \in 1..4 \/ ~ready
             THEN /\ calls' = Sent(polls, k)
                  /\ UNCHANGED <<state, boot>>
             ELSE IF boot
             THEN /\ calls' = polls
                  /\ boot' = FALSE
                  /\ state' = "CALIB_B0_WAIT_DRIFT"
             ELSE /\ calls' = IF k = 5 THEN Append(polls, ":SYST:BEEP 1.0")
                              ELSE polls \o <<":SYST:BEEP 1.0", "input",
                                              "set_valves 0x47">>
                  /\ state' = IF k = 5 THEN state ELSE "EXAM_START"
                  /\ UNCHANGED boot
    /\ UNCHANGED <<mpc, mtstart, evars, daqvars>>

\* a pass that resets T0 before it opens the still valve
StillAirCalls_M ==
    <<":CMD:BASE:DRIFT? ch4, 60.0", ":SYST:BEEP 1.0", ":CMD:TIME:RST",
      "set_valve STILL ON", ":CMD:READ? ch4, 0.0, 1.0">>

\* lines 1230-1240: the calls of the pass that finds the CH4 drift stable
StillAirCalls ==
    <<":CMD:BASE:DRIFT? ch4, 60.0", ":SYST:BEEP 1.0", "set_valve STILL ON",
      ":CMD:TIME:RST", ":CMD:READ? ch4, 0.0, 1.0">>

\* lines 1227-1242: the CH4 drift is read; once stable the still valve is
\* opened, T0 is reset, the time origin is taken again and the base level
\* read; set_valve cannot raise (line 1024)
P_CalibWaitDrift(tgs, k) ==
    /\ mpc = "loop"
    /\ state = "CALIB_B0_WAIT_DRIFT"
    /\ k # 3
    /\ k > 1 => Stable(tgs, ch4_base_drift)
    /\ Elapse
    /\ tgs_drift_val' = IF k = 1 THEN tgs_drift_val ELSE tgs
    /\ caught' = (k # 0)
    /\ IF k = 1 \/ ~Stable(tgs, ch4_base_drift)
       THEN /\ calls' = <<":CMD:BASE:DRIFT? ch4, 60.0">>
            /\ UNCHANGED <<state, mtstart, trst, tgs_base>>
       ELSE /\ calls' = Sent(StillAirCalls, k)
            /\ \E base \in BaseReadings : tgs_base' = IF k = 0 THEN base ELSE tgs_base
            /\ mtstart' = IF k \in {0, 5} THEN now' ELSE mtstart
            /\ trst' = IF k \in {0, 5} THEN now' ELSE trst
            /\ state' = IF k = 0 THEN "CALIB_B0_WAIT_T105" ELSE state
    /\ UNCHANGED <<mpc, boot, h2_drift_val, xvars, tgs_comp, calibrated, ch4_comp,
                   curve_comp, daqvars>>

\* lines 1243-1254: 107 s after the reset the still valve is closed, the
\* level at 105.5 s is read and the controller returns to WAIT_BASELINES
P_CalibWaitT105(k) ==
    /\ mpc = "loop"
    /\ state = "CALIB_B0_WAIT_T105"
    /\ k \in {0, 2}
    /\ Spin
    /\ k = 2 => now' - mtstart >= T105Wait
    /\ caught' = (k # 0)
    /\ IF now' - mtstart >= T105Wait
       THEN /\ calls' = <<"set_valve STILL OFF", ":CMD:READ? ch4, 105.5, 1.0">>
            /\ state' = IF k = 0 THEN "WAIT_BASELINES" ELSE state
            /\ \E tgs_t105 \in T105Readings :
                  tgs_comp' = IF k = 0 THEN tgs_t105 - tgs_base ELSE tgs_comp
            /\ calibrated' = (calibrated \/ k = 0)
       ELSE /\ calls' = <<>>
            /\ UNCHANGED <<state, tgs_comp, calibrated>>
    /\ UNCHANGED <<mpc, boot, mtstart, tgs_drift_val, h2_drift_val, trst, xvars,
                   tgs_base, ch4_comp, curve_comp, daqvars>>

\* lines 1277-1291: baselines are read and the sample push is started
P_ExamStart(k) ==
    /\ mpc = "loop"
    /\ state = "EXAM_START"
    /\ k \in {0, 1}
    /\ Elapse
    /\ calls' = Sent(<<":CMD:READ? ch4, max, 1.0", ":CMD:READ? h2, max, 1.0",
                       ":CMD:READ? o2, max, 1.0", ":CMD:BASE:DRIFT? ch4, 60.0",
                       ":CMD:BASE:DRIFT? h2, 60.0", ":CMD:READ? ALL",
                       "hid.connect", "hid.push_sample">>, k)
    /\ caught' = (k # 0)
    /\ state' = IF k = 0 THEN "EXAM_PUSHING" ELSE state
    /\ UNCHANGED <<mpc, boot, mtstart, tgs_drift_val, h2_drift_val, evars, daqvars>>

\* lines 1292-1304: once the motor is off the time origin is taken, then
\* :CMD:TIME:RST is sent, after the sleep of send(), and served lat seconds
\* later; then the valves are set
P_ExamPushing(off, k, lat) ==
    /\ mpc = "loop"
    /\ state = "EXAM_PUSHING"
    /\ k \in {0, 2}
    /\ k = 2 => off
    /\ (k = 2 \/ ~off) => lat = 0
    /\ Elapse
    /\ calls' = IF off
                THEN Sent(<<"hid.status", ":CMD:TIME:RST", "set_valves 0x0F",
                            "hid.close">>, k)
                ELSE <<"hid.status">>
    /\ caught' = (k # 0)
    /\ mtstart' = IF off THEN now' ELSE mtstart
    /\ trst' = IF off /\ k = 0 THEN now' + SendWait + lat ELSE trst
    /\ state' = IF off /\ k = 0 THEN "EXAM_WAIT_T107" ELSE state
    /\ UNCHANGED <<mpc, boot, tgs_drift_val, h2_drift_val, xvars, cvars, daqvars>>

\* lines 1305-1340: 107 s after the reset the results are read and the
\* controller returns to WAIT_BASELINES; an exception is printed by the
\* handler of this state (line 1338) and ends the loop
P_ExamWaitT107(k) ==
    /\ mpc = "loop"
    /\ state = "EXAM_WAIT_T107"
    /\ k \in {0, 1}
    /\ Spin
    /\ k = 1 => now' - mtstart >= T105Wait
    /\ IF now' - mtstart >= T105Wait
       THEN /\ calls' = Sent(<<":CMD:READ? AHT10_RHUM", ":CMD:READ? o2, 105.0, 1.0",
                               ":CMD:READ? ch4, 105.0, 1.0",
                               ":CMD:PEAK? h2, -60, 1200.0", "set_valves 0x07",
                               ":SYST:BEEP 1.5">>, k)
            /\ state' = IF k = 0 THEN "WAIT_BASELINES" ELSE state
            /\ mpc' = IF k = 0 THEN mpc ELSE "done"
            /\ ch4_comp' = IF k = 0 THEN calib_tgs_comp ELSE ch4_comp
       ELSE /\ calls' = <<>>
            /\ UNCHANGED <<state, mpc, ch4_comp>>
    /\ caught' = FALSE
    /\ UNCHANGED <<boot, mtstart, tgs_drift_val, h2_drift_val, trst, xvars,
                   tgs_base, tgs_comp, calibrated, curve_comp, daqvars>>

\* the controller alone: it is started with or without --boot and every
\* call it makes may raise
NextProc ==
    \/ \E b \in BOOLEAN : P_Options(b)
    \/ \E k \in 0..1 : P_Init(k)
    \/ \E ok \in BOOLEAN, k \in 0..4 : P_TempStabilizing(ok, k)
    \/ \E tgs \in DriftReplies, h2 \in DriftReplies, k \in 0..5 : P_WaitBaselines(tgs, h2, k)
    \/ \E tgs \in DriftReplies, k \in 0..5 : P_CalibWaitDrift(tgs, k)
    \/ \E k \in {0, 2} : P_CalibWaitT105(k)
    \/ \E k \in 0..1 : P_ExamStart(k)
    \/ \E off \in BOOLEAN, k \in {0, 2}, lat \in 0..MaxLatency : P_ExamPushing(off, k, lat)
    \/ \E k \in 0..1 : P_ExamWaitT107(k)

SpecProc == Init /\ [][NextProc]_vars

(* ------------- the maintenance procedures (hmc_master.py) ------------- *)
\* the operations of lines 282-296
Operations == {"WASH", "FILL", "EMPTY", "HOME", "BREATH"}

\* lines 1173-1178: the state the loop starts in
StartState(op) ==
    IF op = "WASH" THEN "WASH_START"
    ELSE IF op = "FILL" THEN "FILL_START"
    ELSE IF op = "EMPTY" THEN "EMPTY_START"
    ELSE IF op = "BREATH" THEN "BREATH_START"
    ELSE IF op = "HOME" THEN "HOME_START"
    ELSE "INIT"

\* the state that follows a start state (lines 1346, 1374, 1389, 1404, 1418)
AfterStart(s) ==
    IF s = "WASH_START" THEN "WASH_FILLING"
    ELSE IF s = "FILL_START" THEN "WAIT_FILLING"
    ELSE IF s = "EMPTY_START" THEN "WAIT_EMPTYING"
    ELSE IF s = "HOME_START" THEN "WAIT_HOMING"
    ELSE "EXIT"

\* what Hid.status can return (lines 869-881): the frame of the actuator,
\* or None when nothing arrives in time
Answers == {"<ON>", "<OF>", "none"}
Answer(ans) ==
    /\ ans = "<OF>" => motor = "off"
    /\ ans = "<ON>" => motor = "on"

\* a test for a frame the actuator never sends
MotorOff_M(ans) == ans = "<OFF>"

\* hid.status() == '<OF>' (lines 1350, 1364, 1379, 1394, 1409)
MotorOff(ans) == ans = "<OF>"

\* lines 282-296 and 1170-1182: an operation is asked for on the command
\* line, --wash with its count
P_Operation(op, n) ==
    /\ mpc = "options"
    /\ op # "WASH" => n = 0
    /\ mpc' = "loop"
    /\ operation' = op
    /\ wash_cycles' = n
    /\ wash_n' = n
    /\ state' = StartState(op)
    /\ mtstart' = now
    /\ UNCHANGED <<now, boot, tgs_drift_val, h2_drift_val, calls, caught, trst, cvars, motor,
                   fills, empties, daqvars>>

\* lines 1341-1348, 1369-1376, 1384-1391, 1399-1406, 1414-1420: the
\* actuator is connected, the valves are set and the motor is started
\* (BREATH_START starts no move)
P_MaintStart ==
    /\ mpc = "loop"
    /\ state \in {"WASH_START", "FILL_START", "EMPTY_START", "HOME_START", "BREATH_START"}
    /\ calls' = IF state = "BREATH_START" THEN <<"hid.connect", "set_valves">>
                ELSE IF state = "HOME_START" THEN <<"hid.connect", "set_valves", "hid.home">>
                ELSE <<"hid.connect", "set_valves", "hid.goto">>
    /\ motor' = IF state = "BREATH_START" THEN motor ELSE "on"
    /\ fills' = IF state = "WASH_START" THEN fills + 1 ELSE fills
    /\ state' = AfterStart(state)
    /\ caught' = FALSE
    /\ UNCHANGED <<now, mpc, boot, mtstart, tgs_drift_val, h2_drift_val, trst, cvars, wash_n, operation,
                   wash_cycles, empties, daqvars>>

\* the motor ends its move
A_MotorStop ==
    /\ motor = "on"
    /\ motor' = "off"
    /\ UNCHANGED <<now, mpc, state, boot, mtstart, tgs_drift_val, h2_drift_val, calls,
                   caught, trst, cvars, wash_n, operation, wash_cycles, fills, empties, daqvars>>

\* lines 1377-1383, 1392-1398, 1407-1413: once the motor is off the valves
\* are set, the controller beeps and goes to EXIT
P_WaitMotor(ans, k) ==
    /\ mpc = "loop"
    /\ state \in {"WAIT_FILLING", "WAIT_EMPTYING", "WAIT_HOMING"}
    /\ Answer(ans)
    /\ k \in {0, 3}
    /\ k = 3 => MotorOff(ans)
    /\ calls' = IF MotorOff(ans)
                THEN Sent(<<"hid.status", "set_valves", ":SYST:BEEP 1.0">>, k)
                ELSE <<"hid.status">>
    /\ caught' = (k # 0)
    /\ state' = IF MotorOff(ans) /\ k = 0 THEN "EXIT" ELSE state
    /\ UNCHANGED <<now, mpc, boot, mtstart, tgs_drift_val, h2_drift_val, evars, daqvars>>

\* lines 1362-1368: once the motor is off the syringe is emptied
P_WashFilling(ans) ==
    /\ mpc = "loop"
    /\ state = "WASH_FILLING"
    /\ Answer(ans)
    /\ caught' = FALSE
    /\ IF MotorOff(ans)
       THEN /\ calls' = <<"hid.status", "set_valves", "hid.goto">>
            /\ motor' = "on"
            /\ empties' = empties + 1
            /\ state' = "WASH_EMPTYING"
       ELSE /\ calls' = <<"hid.status">>
            /\ UNCHANGED <<motor, empties, state>>
    /\ UNCHANGED <<now, mpc, boot, mtstart, tgs_drift_val, h2_drift_val, trst, cvars, wash_n, operation,
                   wash_cycles, fills, daqvars>>

\* lines 1348-1361: once the motor is off a cycle is counted down; at zero
\* or below the controller beeps, writes the final valve byte and goes to
\* EXIT, else it fills again
P_WashEmptying(ans, k) ==
    /\ mpc = "loop"
    /\ state = "WASH_EMPTYING"
    /\ Answer(ans)
    /\ k \in {0, 2}
    /\ k = 2 => (MotorOff(ans) /\ wash_cycles - 1 <= 0 /\ wash_cycles > 0 - MaxWash)
    /\ caught' = (k # 0)
    /\ IF ~MotorOff(ans)
       THEN /\ calls' = <<"hid.status">>
            /\ UNCHANGED <<wash_cycles, motor, fills, state>>
       ELSE /\ wash_cycles' = wash_cycles - 1
            /\ IF wash_cycles - 1 <= 0
               THEN /\ calls' = Sent(<<"hid.status", ":SYST:BEEP 1.0", "set_valves 0x07">>, k)
                    /\ state' = IF k = 0 THEN "EXIT" ELSE state
                    /\ UNCHANGED <<motor, fills>>
               ELSE /\ calls' = <<"hid.status", "set_valves", "hid.goto">>
                    /\ motor' = "on"
                    /\ fills' = fills + 1
                    /\ state' = "WASH_FILLING"
    /\ UNCHANGED <<now, mpc, boot, mtstart, tgs_drift_val, h2_drift_val, trst, cvars, wash_n, operation,
                   empties, daqvars>>

\* lines 1421-1428: EXIT closes the actuator and raises AppException, whose
\* handler ends the loop
P_Exit ==
    /\ mpc = "loop"
    /\ state = "EXIT"
    /\ mpc' = "done"
    /\ calls' = <<"hid.close">>
    /\ caught' = FALSE
    /\ UNCHANGED <<now, state, boot, mtstart, tgs_drift_val, h2_drift_val, evars, daqvars>>

\* the maintenance procedures: one operation is asked for, the motor stops
\* some time after it was started, the status may go unanswered and the
\* beep may raise
NextMaint ==
    \/ \E op \in Operations, n \in 0..MaxWash : P_Operation(op, n)
    \/ P_MaintStart
    \/ A_MotorStop
    \/ \E ans \in Answers, k \in {0, 3} : P_WaitMotor(ans, k)
    \/ \E ans \in Answers : P_WashFilling(ans)
    \/ \E ans \in Answers, k \in {0, 2} : P_WashEmptying(ans, k)
    \/ P_Exit

\* a pass in which the status is answered and no call raises
MaintGood ==
    \/ \E ans \in {"<ON>", "<OF>"} : P_WaitMotor(ans, 0)
    \/ \E ans \in {"<ON>", "<OF>"} : P_WashFilling(ans)
    \/ \E ans \in {"<ON>", "<OF>"} : P_WashEmptying(ans, 0)

\* the loop keeps running; the motor ends every move and the actuator and
\* the server answer in the end
FairMaint ==
    /\ WF_vars(P_MaintStart \/ P_Exit)
    /\ WF_vars(A_MotorStop)
    /\ WF_vars(MaintGood /\ state' # state)

SpecMaint == Init /\ [][NextMaint]_vars /\ FairMaint

\* the ring under its lock: the worker streams, main appends in the two
\* halves of its locked block, one client asks for the bounds of the ring
\* and one asks the data port for a range
BoundsTexts == {T_TIME_MIN, T_TIME_MAX}

NextLock ==
    \/ W_Read({L_SAMPLE}, {1}, LockSamples)
    \/ W_PollCmd({"idle"})
    \/ W_Tail
    \/ S_Lock
    \/ S_Unlock
    \/ H_Accept(1)
    \/ H_Check(1)
    \/ \E data \in BoundsTexts : H_Recv(1, data, LockRequests)
    \/ D_Accept
    \/ D_Check
    \/ D_Recv(DataReadText(0, 1), DataRequests1)
    \/ D_Index0
    \/ D_Index1
    \/ D_Collect

SpecLock == Init /\ [][NextLock]_vars

NextTrig ==
    \/ W_Read({L_SAMPLE}, {1}, TrigSamples)
    \/ W_PollCmd({"idle"})
    \/ W_Sync
    \/ W_Reply
    \/ W_Tail
    \/ H_Accept(1)
    \/ H_Check(1)
    \/ \E data \in TrigTexts : H_Recv(1, data, TrigRequests)
    \/ H_Submit(1)
    \/ H_Await(1)

SpecTrig == InitMux /\ [][NextTrig]_vars

(* ------------------------------- claims -------------------------------- *)
Last(xs) == xs[Len(xs)]

\* C2: in every reachable state of the ring, consecutive records have
\* strictly increasing seq and non-decreasing t, whatever the interleaving
\* of appends, evictions and time resets.
C2_RingOrdered ==
    \A i \in 1..(Len(bufidx) - 1) :
        /\ bufidx[i][1] < bufidx[i+1][1]
        /\ bufidx[i][2] <= bufidx[i+1][2]

\* C3: after every append-with-eviction by the supervisor the ring spans at
\* most bufsize seconds: t_last - t_first <= bufsize.
C3_AppendKeepsWindow ==
    [][Len(data_Q') < Len(data_Q) =>
          (Last(bufidx')[2] - bufidx'[1][2]) <= bufsize]_vars

\* C4: when a handler completes a :CMD:TIME:RST, the reply it sends is the
\* response it took from its own slot, a number D produced by the worker for
\* this handler; every record of the ring keeps its seq and values and has
\* its t replaced by t - D.
C4_TimeRstShiftsRing ==
    [][\A h \in Conns :
          /\ (hpc[h] = "await" /\ hpc'[h] = "rst_apply")
                => hresp'[h] = Head(pool_Q[hcmd[h].resp_Qn])
          /\ (hpc[h] = "rst_apply" /\ hpc'[h] = "loop")
                => LET reply == Last(hsent'[h])
                   IN /\ Len(hsent'[h]) = Len(hsent[h]) + 1
                      /\ reply = hresp[h]
                      /\ reply.kind = "NUM"
                      /\ reply.rid = h
                      /\ Len(bufidx') = Len(bufidx)
                      /\ \A i \in 1..Len(bufidx) :
                            /\ bufidx'[i][1] = bufidx[i][1]
                            /\ bufidx'[i][2] = bufidx[i][2] - reply.val
                      /\ bufadc' = bufadc]_vars

\* C4 witness: a time reset with a positive offset has been applied to a
\* ring whose oldest record now has a negative time.
C4_Witness ==
    \E h \in Conns :
        /\ hsent[h] # <<>>
        /\ Last(hsent[h]).kind = "NUM"
        /\ Last(hsent[h]).val > 0
        /\ Len(bufidx) > 1
        /\ bufidx[1][2] < 0

(* claims about the data port *)
\* the lines the data handler sent in the step that ends a :DATA:READ?
NewLines == SubSeq(dsent', Len(dsent) + 1, Len(dsent'))
\* a :DATA:READ? with both bounds completes in this step
ReadDone == dpc = "collect" /\ dpc' = "loop" /\ Len(dfields) = 3
QueryT0 == conv_float(dfields[2])
QueryT1 == conv_float(dfields[3])

\* C6: the reply to :DATA:READ? a, b ends with OK, lists records in
\* increasing seq and non-decreasing t, and contains every record with
\* a <= t <= b that was in the ring from the receipt of the request until
\* the records were copied, whatever the supervisor appended or evicted
\* meanwhile.
C6_ReadComplete ==
    [][ReadDone =>
          LET out == NewLines
              n == Len(out) - 1
          IN /\ Len(out) >= 1
             /\ out[Len(out)].kind = "OK"
             /\ \A k \in 1..n : out[k].kind = "REC"
             /\ \A k \in 1..(n - 1) :
                   out[k].seq < out[k+1].seq /\ out[k].t <= out[k+1].t
             /\ \A i \in 1..Len(bufidx) :
                   ( /\ FGe(bufidx[i][2], QueryT0)
                     /\ FLe(bufidx[i][2], QueryT1)
                     /\ \E j \in 1..Len(dring) : dring[j] = bufidx[i] )
                   => \E k \in 1..n : out[k].seq = bufidx[i][1]]_vars

\* C7: no record with t < t0 or t > t1 is emitted in the reply to
\* :DATA:READ? t0, t1, and every emitted record is a record of the ring.
C7_ReadWithinWindow ==
    [][ReadDone =>
          \A k \in 1..Len(NewLines) :
              NewLines[k].kind = "REC" =>
                 /\ FGe(NewLines[k].t, QueryT0)
                 /\ FLe(NewLines[k].t, QueryT1)
                 /\ \E i \in 1..Len(bufidx) :
                       bufidx[i] = <<NewLines[k].seq, NewLines[k].t>>]_vars

(* claims about the response slots *)
\* C1: the response the worker produces for a forwarded request is received
\* by the handler that submitted it and by no other: every response a
\* handler took or relayed carries its own request, at most one per request
\* it received, and a response waiting on a slot belongs to the handler that
\* waits on that slot.
C1_NoCrossTalk ==
    /\ \A h \in Conns :
          /\ hresp[h].rid \in {0, h}
          /\ \A k \in 1..Len(hsent[h]) : hsent[h][k].rid \in {0, h}
          /\ Len(hsent[h]) <= hnreq[h]
    /\ \A q \in Slots :
          \A k \in 1..Len(pool_Q[q]) :
              /\ pool_Q[q][k].rid \in Conns
              /\ hpc[pool_Q[q][k].rid] = "await"
              /\ hcmd[pool_Q[q][k].rid].resp_Qn = q
              /\ Len(pool_Q[q]) = 1

\* C1 witness: two handlers have each relayed a response of the worker to
\* their own request.
C1_Witness ==
    \E g, h \in Conns :
        /\ g # h
        /\ \E k \in 1..Len(hsent[g]) : hsent[g][k].rid = g
        /\ \E k \in 1..Len(hsent[h]) : hsent[h][k].rid = h

\* the handler was accepted in this step while no response slot was free
AcceptedFull(h) == hpc[h] = "new" /\ hpc'[h] # "new" /\ free_Qn = <<>>

SyncSeq(req) == <<T_Q, req>>
Resynced(req) == <<T_Q, req, T_Q, T_Q, T_Q, T_CLS, req>>
Reopened(req) == Resynced(req) \o <<T_IDN, T_SYST_CAP>>
Served(req) == {SyncSeq(req), Resynced(req), Reopened(req)}

\* C5: serving a synchronous request the worker writes Q, sleeps for the
\* pre-wait, writes the request (reading a response line exactly when it
\* holds '?'), after an oversized response Q, Q, Q, *cls and the request
\* again, then after a second one reopens the link and probes it, and
\* finally writes the continuous trigger; from the Q to the trigger it
\* emits no sample on data_Q.
C5_SyncOrdered ==
    [][LET req == Upper(wcmd.cmd)
       IN /\ (wpc = "sync") => (wlog = <<T_Q>> /\ ~cont_read)
          /\ (wpc = "resync") => (wlog = SyncSeq(req) /\ ~cont_read)
          /\ (wpc = "reopen") => (wlog = Resynced(req) /\ ~cont_read)
          /\ (wpc = "reply") => (wlog \in Served(req) /\ ~cont_read)
          /\ (wpc = "sync" /\ wpc' \in {"resync", "reply"}) =>
                /\ now' >= wq_time + wcmd.wait
                /\ wlog' = SyncSeq(req)
                /\ (response'.kind \in {"ANS", "LEAK"}) = Contains(req, <<"?">>)
          /\ (wpc = "reply" /\ wpc' = "tail") =>
                /\ wlog' = Append(wlog, cmd_trig)
                /\ cont_read'
          /\ (wpc \in {"sync", "resync", "reopen", "reply"}) =>
                /\ idx' = idx
                /\ Len(data_Q') <= Len(data_Q)
                /\ (Len(data_Q') = Len(data_Q) => data_Q' = data_Q)]_vars

\* C5 witness: a request with a pre-wait has been served, its response is
\* on the handler's slot and the continuous trigger has been written again.
C5_Witness ==
    /\ cont_read
    /\ wpc = "tail"
    /\ wcmd.wait = RstWait
    /\ wlog = Append(SyncSeq(Upper(wcmd.cmd)), cmd_trig)
    /\ now >= wq_time + RstWait
    /\ pool_Q[wcmd.resp_Qn] = <<response>>

(* claims about the dispatch *)
\* a request whose first token is no internal command and begins with
\* neither '*' nor ':'
UnknownReq(data) ==
    LET fields == Fields(Strip(data))
    IN IF fields = <<>> THEN FALSE
       ELSE /\ ~IsInternal(fields[1])
            /\ fields[1][1] \notin {"*", ":"}

CannotServe(h) ==
    /\ hpc[h] = "recv"
    /\ hnreq'[h] > hnreq[h]
    /\ LET fields == Fields(Strip(hdata'[h]))
       IN IF fields = <<>> THEN TRUE
          ELSE fields[1] \in {T_TIME_MIN, T_TIME_MAX} /\ bufidx = <<>>

\* C10: a handler that cannot serve a request replies ERR (or ERR: detail)
\* and keeps the connection open, for every request text and every ring
\* state.
C10_ErrKeepsOpen ==
    [][\A h \in Conns :
          CannotServe(h) =>
             /\ hpc'[h] # "closed"
             /\ hsent'[h] # <<>>
             /\ Last(hsent'[h]).kind = "ERR"]_vars

(* claims about the continuous trigger *)
\* C11: no request on cmd_Q holds a continuous trigger, and the only
\* continuous trigger the worker writes to the instrument is its own
\* cmd_trig: a client request addressing :TRIG:CONT:READ? reaches the worker
\* in the single-shot form only.
C11_OnlySingleShot ==
    /\ \A k \in 1..Len(cmd_Q) : ~Contains(Upper(cmd_Q[k].cmd), T_TRIG_CONT)
    /\ \A k \in 1..Len(wlog) :
          Contains(Upper(wlog[k]), T_TRIG_CONT) => wlog[k] = cmd_trig

(* claims about the end of the worker *)
\* C12: whenever the worker leaves its loop through the exception handler
\* (a failed link, a failed reopen, an instrument that stays out of phase),
\* the terminate event is eventually set, for every setting of arg.silent.
C12_FatalTerminates == (wpc = "except") ~> evt_terminate

\* the worker failed while it held the request handler h is waiting for
FailedServing(h) ==
    /\ hpc[h] = "await"
    /\ wpc = "except"
    /\ wcmd.rid = h
    /\ cmd_Q = <<>>
    /\ pool_Q[hcmd[h].resp_Qn] = <<>>

\* C13: a handler whose forwarded request was being served when the worker
\* failed eventually stops waiting and releases cmd_lock.
C13_FailedRequestAnswered ==
    FailedServing(1) ~> (hpc[1] # "await" /\ cmd_lock # 1)

(* claims about the stream and the shutdown *)
\* every handler thread has left its loop (or was never started)
AllExited ==
    /\ \A h \in Conns : hpc[h] \in {"new", "closed"}
    /\ dpc \in {"new", "closed"}
    /\ \A l \in Subs : lpc[l] \in {"new", "closed"}

\* C14: once the terminate event is set, the supervisor ends its shutdown
\* and every handler, a streaming one included, eventually leaves its loop.
C14_AllLoopsExit == evt_terminate ~> (spc = "done" /\ AllExited)

\* the client of streaming handler l has gone and no sample will come: the
\* worker has ended and nothing is left on data_Q or in the handler's FIFO
GoneAndQuiet(l) ==
    /\ lpc[l] = "listen"
    /\ lpeer[l] # "open"
    /\ wpc \in {"done", "crashed", "killed"}
    /\ data_Q = <<>>
    /\ OwnFifo(l).items = <<>>

\* C15: after the client of a streaming handler has disconnected, the
\* forward loop eventually ends and the FIFO leaves the subscriber list,
\* also when no further sample arrives.
C15_ListenEndsOnDisconnect ==
    GoneAndQuiet(1) ~> (lpc[1] = "closed" /\ ~Subscribed(1))

\* the seq numbers of a sequence of records are strictly increasing
SeqOrdered(xs) == \A i \in 1..(Len(xs) - 1) : xs[i].seq < xs[i+1].seq

\* C16: what each subscriber has been sent is in seq order, and so is what
\* waits in its FIFO, which is newer than everything already sent.
C16_SubscriberOrder ==
    /\ \A l \in Subs : SeqOrdered(lsent[l])
    /\ \A k \in 1..Len(data_queues) :
          LET f == data_queues[k]
          IN /\ SeqOrdered(f.items)
             /\ (f.items # <<>> /\ lsent[f.owner] # <<>>)
                   => Last(lsent[f.owner]).seq < f.items[1].seq

\* C16 witness: two subscribers have been sent samples, one of them at
\* least two, while the other still has a sample waiting.
C16_Witness ==
    \E l1, l2 \in Subs :
        /\ l1 # l2
        /\ Len(lsent[l1]) >= 2
        /\ Len(lsent[l2]) >= 1
        /\ Subscribed(l2)
        /\ OwnFifo(l2).items # <<>>

\* a live handler that has taken a slot and not yet returned it
Holding(h) == hpc[h] \in {"loop", "recv", "lock", "await"}
Holders(s) == {h \in Conns : Holding(h) /\ hcmd[h].resp_Qn = s}
FreeCount(s) == Cardinality({k \in 1..Len(free_Qn) : free_Qn[k] = s})

\* C17: every response slot is either once in the free list or held by
\* exactly one live handler, at most max_handlers handlers hold slots, and
\* the slot of a handler that has exited is back in the pool.
C17_SlotPool ==
    /\ \A s \in 0..(max_handlers - 1) : FreeCount(s) + Cardinality(Holders(s)) = 1
    /\ Cardinality({h \in Conns : Holding(h)}) <= max_handlers
    /\ \A k \in 1..Len(free_Qn) : free_Qn[k] \in 0..(max_handlers - 1)

\* C17 witness: three handlers raced for the slots; one lost the race after
\* the test of the free list, one holds a slot, and one has left and its
\* slot is in the free list again.
C17_Witness ==
    \E h1, h2, h3 \in Conns :
        /\ hpc[h1] = "closed" /\ hexit[h1] = "disconnect"
        /\ FreeCount(hcmd[h1].resp_Qn) = 1
        /\ Holding(h2)
        /\ hpc[h3] = "dead"

\* the record the worker builds when the read returned the empty text, as
\* readline does when the serial timeout expires
TimeoutRecord(i, t) == MakeRecord(i, t, L_EMPTY)

\* C18: a serial read that times out in the worker's main loop emits no
\* record on data_Q and consumes no seq number: no record on data_Q is the
\* record of an empty read.
C18_TimeoutSwallowed ==
    \A k \in 1..Len(data_Q) : data_Q[k] # TimeoutRecord(data_Q[k][1], data_Q[k][2])

\* C19: every record of the sample ring has one value per sensor of the
\* catalogue, whatever lines the serial link delivers.
C19_ValuesLength ==
    \A i \in 1..Len(bufadc) : Len(bufadc[i]) = NSensors

\* the value of sensor k (from 1) in a continuous-mode line of the wire form
\* '<elapsed>s,<v0>,<v1>,...': the field after the elapsed-time token and
\* the k-1 values before it
ChannelValue(line, k) == conv_float(Strip(SplitComma(line, <<>>)[k + 1]))

\* C20: for lines of the wire form with one value per sensor, the record in
\* the ring holds at position i the parsed value of channel i.
C20_ValuesAligned ==
    \A i \in 1..Len(bufadc) :
        \A k \in 1..NSensors : bufadc[i][k] = ChannelValue(L_SAMPLE, k)


\* the times of a ring never decrease from one record to the next
TimeSorted(ring) == \A i \in 1..(Len(ring) - 1) : ring[i][2] <= ring[i+1][2]

\* the smallest index (from 0) whose time is at least t, the last index when
\* every time is smaller
FirstAtLeast(ring, t) ==
    IF \A i \in 1..Len(ring) : ring[i][2] < t THEN Len(ring) - 1
    ELSE (CHOOSE i \in 1..Len(ring) :
             /\ ring[i][2] >= t
             /\ \A j \in 1..(i-1) : ring[j][2] < t) - 1

\* the data handler looks up the start or the end time of its request
LooksUp0 == dpc = "index0" /\ dpc' # "index0"
LooksUp1 == dpc = "index1" /\ dpc' # "index1"

\* C21: on a non-empty ring with non-decreasing times, find_time_index(t)
\* is the smallest index whose time is >= t, 0 below the first time and the
\* last index above the last time, and the ring is left as it was.
C21_FindTimeIndex ==
    [][(bufidx # <<>> /\ TimeSorted(bufidx)) =>
          /\ LooksUp0 => /\ dp0' = FirstAtLeast(bufidx, conv_float(dfields[2]))
                         /\ bufidx' = bufidx
          /\ LooksUp1 => /\ dp1' = FirstAtLeast(bufidx, conv_float(dfields[3])) + 1
                         /\ bufidx' = bufidx]_vars

\* C21 witness: the start time of a request fell between two records of the
\* ring and the lookup returned the later one, which is not the first.
C21_Witness ==
    /\ dpc = "index1"
    /\ Len(bufidx) >= 2
    /\ dp0 >= 1
    /\ dp0 = FirstAtLeast(bufidx, conv_float(dfields[2]))
    /\ bufidx[dp0 + 1][2] > conv_float(dfields[2])
    /\ bufidx[dp0][2] < conv_float(dfields[2])


\* handler h answers a :CMD:READ? <label>, <time>, 0
ReadsWindow0(h) ==
    /\ hpc[h] = "recv" /\ hpc'[h] = "loop"
    /\ LET fields == Fields(Strip(hdata'[h]))
       IN /\ Len(fields) = 4
          /\ fields[1] = T_READ
          /\ conv_float(fields[4]) = 0

\* the reply to the same request without the period, on the same ring
PointReply(h) == ReadReply(SubSeq(Fields(Strip(hdata'[h])), 1, 3), bufidx, bufadc)

\* C22: the median over a window of length 0 that ends at an index is the
\* point read of the same channel at that index, for every state of the ring.
C22_MedianWindow0 ==
    [][\A h \in Conns : ReadsWindow0(h) => Last(hsent'[h]) = PointReply(h)]_vars


\* the worker takes a :CMD:TIME:RST request from cmd_Q
ServesRst ==
    /\ wpc = "poll_cmd" /\ wpc' # "poll_cmd"
    /\ cmd_Q # <<>>
    /\ Contains(Upper(Head(cmd_Q).cmd), T_TIME_RST)

\* the worker emits a sample
EmitsSample == wpc = "read" /\ Len(data_Q') > Len(data_Q)

\* C23: serving :CMD:TIME:RST the worker writes nothing to the serial link
\* and stays in continuous mode, sets its start time to the current time and
\* replies with wavetime, which is the stamp of the sample read last.
C23_TimeRstInWorker ==
    [][/\ EmitsSample => wavetime' = Last(data_Q')[2]
       /\ ServesRst =>
            /\ wlog' = wlog /\ inst' = inst /\ cont_read' = cont_read /\ cont_read
            /\ tstart' = now
            /\ pool_Q' = [pool_Q EXCEPT ![Head(cmd_Q).resp_Qn] =
                             Append(@, [kind |-> "NUM", val |-> wavetime, of |-> <<>>,
                                        len |-> Len(IntText(wavetime)),
                                        rid |-> Head(cmd_Q).rid])]]_vars

\* C23 witness: the reset has been served some time after the last sample:
\* the reply on the handler's slot is the stamp of that sample, the start
\* time is the later current time, and the stream goes on.
C23_Witness ==
    /\ wpc = "tail"
    /\ Contains(Upper(wcmd.cmd), T_TIME_RST)
    /\ pool_Q[wcmd.resp_Qn] # <<>>
    /\ Last(pool_Q[wcmd.resp_Qn]).val = wavetime
    /\ tstart = now
    /\ wavetime < now
    /\ cont_read /\ inst = "stream"
    /\ wlog = <<cmd_trig>>


AbortTaken == spc # "loop" /\ ctr_Q = <<>>

\* C25: once the worker has taken the abort message it writes Q and *RST,
\* then closes the serial link and exits.
C25_AbortSequence == AbortTaken ~> (wpc = "done" /\ gvsi = "closed")


\* the worker writes the keepalive
SendsKeepalive == wpc = "tail" /\ wlog' = Append(wlog, T_KEEPALIVE)

\* C26: the keepalive is written only in continuous mode and only when more
\* than 10 seconds have passed since the worker's last write to the serial
\* link, be it the trigger, a Q, a request or a keepalive; wq_time is the
\* time of the last Q, and no request or trigger is written before its Q.
C26_KeepaliveAfterSilence ==
    [][SendsKeepalive =>
          /\ cont_read
          /\ now - wdt_start > WdtPeriod
          /\ now - wq_time > WdtPeriod]_vars

\* a command handler answers :CMD:TIME:MIN? or :CMD:TIME:MAX? from the ring
ReadsBounds(h) ==
    /\ hpc[h] = "recv"
    /\ hpc'[h] = "loop"
    /\ Fields(Strip(hdata'[h])) # <<>>
    /\ Fields(Strip(hdata'[h]))[1] \in BoundsTexts

\* C27: no handler looks at the ring while another thread is inside the locked
\* block: when a command handler answers the bounds of the ring, or the data
\* handler looks up an index, buf_lock is not held by main
C27_RingUnderLock ==
    [][((\E h \in Conns : ReadsBounds(h)) \/ LooksUp0 \/ LooksUp1)
          => buf_lock = "free"]_vars

\* C28: a pass of the controller's loop that ends in the handler of an
\* exception ends the procedure: the loop is not entered again
C28_ExceptionTerminates ==
    [][(mpc = "loop" /\ caught') => mpc' = "done"]_vars

\* a drift within its limit, in either direction
Within(val, limit) == val # NaN /\ 0 - limit <= val /\ val <= limit

LeavesBaselines == state = "WAIT_BASELINES" /\ state' # "WAIT_BASELINES"

\* C29: the controller leaves WAIT_BASELINES only in a pass that read both
\* drifts within their limits, 240 s or more after its time origin, and
\* then towards the calibration or EXAM_START
C29_BaselinesExit ==
    [][LeavesBaselines =>
          /\ Within(tgs_drift_val', ch4_base_drift)
          /\ Within(h2_drift_val', h2_base_drift)
          /\ now' - mtstart >= BaselineWait
          /\ state' \in {"CALIB_B0_WAIT_DRIFT", "EXAM_START"}]_vars

\* the controller is in EXAM_START after a pass that read a negative CH4
\* drift and a positive H2 drift, both within their limits
C29_Witness ==
    /\ state = "EXAM_START"
    /\ calls # <<>>
    /\ calls[Len(calls)] = "set_valves 0x47"
    /\ h2_drift_val = 3
    /\ tgs_drift_val = 0 - 1

\* the position of a call in the calls of the last pass, 0 when absent
CallAt(c) ==
    IF \E i \in 1..Len(calls) : calls[i] = c
    THEN CHOOSE i \in 1..Len(calls) : calls[i] = c
    ELSE 0

\* C30: the calibration is entered from WAIT_BASELINES only, with arg.boot
\* set, which that pass clears and no pass sets again; the pass that goes on
\* to wait for T105 has opened the still valve, then reset T0 and taken its
\* time origin; the pass that leaves the wait has closed the still valve
\* before it read the level, and goes to WAIT_BASELINES
C30_StillAirOnce ==
    [][/\ (state # "CALIB_B0_WAIT_DRIFT" /\ state' = "CALIB_B0_WAIT_DRIFT")
              => (state = "WAIT_BASELINES" /\ boot /\ ~boot')
       /\ (mpc = "loop" /\ boot') => boot
       /\ (state = "CALIB_B0_WAIT_DRIFT" /\ state' # state)
              => /\ state' = "CALIB_B0_WAIT_T105"
                 /\ mtstart' = now'
                 /\ LET on == "set_valve STILL ON"
                        rst == ":CMD:TIME:RST"
                    IN (CallAt(on) > 0 /\ CallAt(on) < CallAt(rst))'
       /\ (state = "CALIB_B0_WAIT_T105" /\ state' # state)
              => /\ state' = "WAIT_BASELINES"
                 /\ now' - mtstart >= T105Wait
                 /\ LET off == "set_valve STILL OFF"
                        rd == ":CMD:READ? ch4, 105.5, 1.0"
                    IN (CallAt(off) > 0 /\ CallAt(off) < CallAt(rd))']_vars

\* the controller is back in WAIT_BASELINES from the calibration
C30_Witness ==
    /\ state = "WAIT_BASELINES"
    /\ ~boot
    /\ calls = <<"set_valve STILL OFF", ":CMD:READ? ch4, 105.5, 1.0">>

\* how many times a call appears in the calls of the last pass
CallCount(c) == Cardinality({i \in 1..Len(calls) : calls[i] = c})

\* the pass of EXAM_WAIT_T107 that reads the results
ReadsResults == state = "EXAM_WAIT_T107" /\ calls' # <<>>

\* C31: an exam goes from EXAM_START to EXAM_PUSHING in a pass that issued
\* the push once, from there to EXAM_WAIT_T107 in a pass that asked the
\* status first and reset T0 after it, and from there to WAIT_BASELINES or
\* to the end of the loop; the first result is asked for, one sleep of
\* send() after the test, 107 s or more after the server reset T0
C31_ExamSequence ==
    [][/\ (state = "EXAM_START" /\ state' # state)
              => (state' = "EXAM_PUSHING" /\ CallCount("hid.push_sample")' = 1)
       /\ (state = "EXAM_PUSHING" /\ state' # state)
              => /\ state' = "EXAM_WAIT_T107"
                 /\ (CallAt("hid.status") > 0)'
                 /\ (CallAt("hid.status") < CallAt(":CMD:TIME:RST"))'
       /\ (state = "EXAM_WAIT_T107" /\ state' # state) => state' = "WAIT_BASELINES"
       /\ ReadsResults => (now' + SendWait) - trst >= T105Wait]_vars

C33_FifoBounded ==
    \A q \in 1..Len(data_queues) : Len(data_queues[q].items) <= FifoCap

\* no :CMD:TIME:RST is under way: nothing waits on cmd_Q and no handler is
\* between taking cmd_lock and the rewrite of the ring
RstIdle ==
    /\ cmd_Q = <<>>
    /\ \A h \in Conns : hpc[h] \notin {"lock", "await", "rst_apply"}

\* C34: whenever no time reset is under way, every record of the ring
\* carries the time of its stamping counted from the worker's current
\* origin: a record stamped before a reset was shifted once, one stamped
\* after it was not shifted
C34_RingInTimeBase ==
    RstIdle => \A i \in 1..Len(bufidx) :
                  bufidx[i][2] = stamps[bufidx[i][1] + 1] - tstart


\* C35: every subscriber that is on the subscriber list when a fan-out begins
\* and is still on it when the fan-out has ended was given the sample of that
\* fan-out, whatever other handlers removed from the list meanwhile.
C35_NoSubscriberSkipped ==
    spc = "loop" => \A l \in served.from : Subscribed(l) => l \in served.got


\* C36: the pre-wait of every request on cmd_Q is the one of its own text,
\* RstWait when its first token contains *RST, :SAV or :RCL and 0 otherwise,
\* whatever was sent on the connection before.
C36_WaitFromOwnText ==
    \A i \in 1..Len(cmd_Q) :
       LET f0 == Fields(Strip(Upper(cmd_Q[i].cmd)))[1]
       IN cmd_Q[i].wait = IF Contains(f0, T_RST) \/ Contains(f0, T_SAV) \/ Contains(f0, T_RCL)
                          THEN RstWait ELSE 0


\* C37: a response slot holds at most one response, and holds one only while
\* the handler bound to it is waiting for it; a slot on the free list holds
\* none.
C37_NoStaleResponse ==
    /\ \A s \in Slots :
          /\ Len(pool_Q[s]) <= 1
          /\ pool_Q[s] # <<>> =>
                \E h \in Conns : hpc[h] = "await" /\ hcmd[h].resp_Qn = s
    /\ \A k \in 1..Len(free_Qn) : pool_Q[free_Qn[k]] = <<>>

\* C37 witness: a handler was answered on a slot and gave it back; a later
\* handler bound to the same slot waits on it and the worker has put the
\* response of its request there.
C37_Witness ==
    \E g, h \in Conns :
       /\ g # h
       /\ hpc[g] = "closed" /\ hexit[g] # "rejected" /\ hsent[g] # <<>>
       /\ hcmd[g].resp_Qn = hcmd[h].resp_Qn
       /\ hpc[h] = "await"
       /\ Len(pool_Q[hcmd[h].resp_Qn]) = 1
       /\ pool_Q[hcmd[h].resp_Qn][1].rid = h


\* C38: nothing longer than MaxRespLen characters is put on a response slot
\* or sent to a command client; after an oversized response the client gets
\* the retried response when it is within the limit and NOK otherwise,
\* unless the worker has failed.
C38_NoOversizedReply ==
    /\ \A s \in Slots : \A i \in 1..Len(pool_Q[s]) : pool_Q[s][i].len <= MaxRespLen
    /\ \A h \in Conns : \A i \in 1..Len(hsent[h]) :
          /\ hsent[h][i].len <= MaxRespLen
          /\ hsent[h][i].kind # "LEAK"

\* C38 witness: the response and the retried response were both oversized,
\* the link was reopened and probed, and the client has received NOK.
C38_Witness ==
    \E h \in Conns :
        /\ wcmd.rid = h
        /\ hpc[h] = "loop"
        /\ hsent[h] # <<>>
        /\ Last(hsent[h]).kind = "NOK"
        /\ \E k \in 1..Len(wlog) : wlog[k] = T_SYST_CAP


\* C39: once the still-air calibration has completed, the compensation added
\* to the CH4 reading of an exam, and the one the calibration curves were
\* computed with, is the tgs_comp that the calibration computed.
C39_CalibrationApplied ==
    (calibrated /\ ch4_comp # NaN) =>
        (ch4_comp = tgs_comp /\ curve_comp = tgs_comp)


\* C40: a wash started with the count N has filled and emptied the syringe
\* exactly N times when it reaches EXIT, for every N >= 0.
C40_WashCyclesExact ==
    (operation = "WASH" /\ state = "EXIT") => (fills = wash_n /\ empties = wash_n)

====
